---- MODULE Spec2Model ----
(***************************************************************************)
(* Model of the translation backend (lishuren/translate-linker):           *)
(*   - provider resolution (APIKeySettings.get_key_for_provider,           *)
(*     TranslationService.get_llm, the selection in upload_document);      *)
(*   - the job registry (translations_db, progress_tracker) and the two    *)
(*     pipelines that write it (TranslationService.process_translation,    *)
(*     RAGTranslationService.process_translation_with_rag);                *)
(*   - the HTTP handlers upload_document, check_translation_status and     *)
(*     delete_translation;                                                 *)
(*   - the translation memory (TMXService), the enhance stage and the      *)
(*     confidence estimators.                                              *)
(*                                                                         *)
(* Concurrency: the handlers and the background pipeline tasks are         *)
(* coroutines of one asyncio event loop.  A coroutine is only preempted    *)
(* where it awaits something that really suspends (file I/O through        *)
(* aiofiles, asyncio.sleep, asyncio.to_thread, an LLM ainvoke).  Awaiting  *)
(* a coroutine whose body has no such await (_update_progress,             *)
(* _create_vector_store, _setup_translation_agent,                         *)
(* search_translation_memory, create_tmx_file) runs it to completion       *)
(* without giving other coroutines a turn.  Each pipeline action below is  *)
(* the code between two suspension points.                                 *)
(*                                                                         *)
(* Numbers: progress values are kept in percent (0.15 is 15), confidence   *)
(* scores in thousandths (0.85 is 850).                                    *)
(* An API key is represented by the name of the provider it was issued     *)
(* for, so that "which key" is visible in a resolution result.             *)
(***************************************************************************)
EXTENDS Integers, Sequences, FiniteSets, TLC

(***************************************************************************)
(* Bounds                                                                  *)
(***************************************************************************)
\* number of translation ids the registry has room for
MaxJobs == 2
\* number of upload requests given a translation id in the runs with status
\* polls
MaxUploads == 1
\* largest number of chunks the text splitter produces for one document
MaxChunks == 2
\* number of TMX files uploaded to the router
MaxImports == 2
\* number of calls that add documents to the Chroma stores
MaxAdds == 2
\* largest number of chunks a confidence score is estimated for
MaxSegments == 21

None == "None"

(***************************************************************************)
(* State                                                                   *)
(***************************************************************************)
VARIABLES
    DEFAULT_LLM_MODEL,          \* os.getenv("DEFAULT_LLM_MODEL")
    api_keys,                   \* providers whose *_API_KEY is set
    allow_user_model_selection, \* ALLOW_USER_MODEL_SELECTION == "true"
    rag_enabled,                \* translation_settings.rag_enabled
    settings_cache,             \* UserSettingsService.settings_cache, one per instance
    settings_file,              \* content of user_settings.json
    translations_db,            \* translation_service.translations_db
    progress_tracker,           \* translation_service.progress_tracker
    pc,                         \* position of each background pipeline task
    task,                       \* arguments and locals of each pipeline task
    uploads,                    \* ids whose upload file was saved
    next_id,                    \* number of translation ids generated so far
    response,                   \* last HTTP response sent
    resolution,                 \* result of the last provider resolution
    embedding,                  \* state of the sentence-embedding library and model
    translation_units,          \* TMXService.translation_units, one per instance
    tmx_index,                  \* content of tmx_index.json
    now,                        \* datetime.now()
    uuid_count,                 \* number of uuid4() values drawn by the TMX services
    tmx_op,                     \* last operation of the TMX router
    search_result,              \* what the last /api/tmx/search call returned
    job,                        \* the text of one job on its way through a pipeline
    tmx_files,                  \* the .tmx files of TMXService.tmx_dir and the clock
    confidence,                 \* arguments and result of the last confidence estimate
    chroma                      \* the per-user Chroma directories and the last call

vars == <<DEFAULT_LLM_MODEL, api_keys, allow_user_model_selection, rag_enabled,
          settings_cache, settings_file, translations_db, progress_tracker,
          pc, task, uploads, next_id, response, resolution, embedding,
          translation_units, tmx_index, now, uuid_count, tmx_op, search_result,
          job, tmx_files, confidence, chroma>>

envVars == <<DEFAULT_LLM_MODEL, api_keys, allow_user_model_selection, rag_enabled>>
jobVars == <<translations_db, progress_tracker, pc, task, uploads, next_id>>
resVars == <<resolution>>
scoreVars == <<confidence>>
auxVars == <<chroma>>
setVars == <<settings_cache, settings_file>>
memVars == <<embedding, translation_units, tmx_index, now, uuid_count, tmx_op,
             search_result, job, tmx_files>>

Jobs == 1..MaxJobs

(***************************************************************************)
(* Provider names                                                          *)
(***************************************************************************)
\* the fixed fallback order used in get_llm, get_key_for_provider and
\* upload_document
ProviderOrder ==
    <<"openai", "anthropic", "google", "groq", "cohere", "huggingface",
      "deepseek", "siliconflow">>

Providers == {ProviderOrder[i] : i \in 1..Len(ProviderOrder)}

\* names accepted as aliases by provider_map and get_llm
Aliases == {"chatgpt", "claude", "vertex", "grok"}

\* a name no table knows, and a recognised name in mixed case
UnknownNames == {"mistral"}
MixedCaseNames == {"OpenAI"}

ProviderNames == Providers \cup Aliases \cup UnknownNames \cup MixedCaseNames

\* str.lower() on the names of the model
Lower(s) == IF s = "OpenAI" THEN "openai" ELSE s

\* Python truthiness of an Optional[str]
Truthy(s) == s # None /\ s # ""

\* provider_map of get_key_for_provider: provider name -> key attribute,
\* the attribute being named by the provider that owns the key
provider_map(p) ==
    CASE p \in {"openai", "chatgpt"}          -> "openai"
      [] p \in {"anthropic", "claude"}        -> "anthropic"
      [] p \in {"google", "vertex", "grok"}   -> "google"
      [] p = "groq"                           -> "groq"
      [] p = "cohere"                         -> "cohere"
      [] p = "huggingface"                    -> "huggingface"
      [] p = "deepseek"                       -> "deepseek"
      [] p = "siliconflow"                    -> "siliconflow"
      [] OTHER                                -> None

\* APIKeySettings.default_provider as from_env sets it
default_provider == Lower(DEFAULT_LLM_MODEL)

\* getattr(self, attr): the key of that attribute, None when it is not set
KeyAttr(attr) == IF attr \in api_keys THEN attr ELSE None

\* the loop at the end of get_key_for_provider: the key of the first
\* provider of ProviderOrder from position i on, other than `skip`, whose
\* key is set; None when there is none
RECURSIVE AlternateKeyFrom(_, _)
AlternateKeyFrom(skip, i) ==
    IF i > Len(ProviderOrder) THEN None
    ELSE IF ProviderOrder[i] # skip
            /\ provider_map(ProviderOrder[i]) # None
            /\ Truthy(KeyAttr(provider_map(ProviderOrder[i])))
         THEN KeyAttr(provider_map(ProviderOrder[i]))
         ELSE AlternateKeyFrom(skip, i + 1)

\* get_key_for_provider as its recursive call runs it, on default_provider
\* itself (the test `provider != self.default_provider` is then false)
KeyOf(p) ==
    IF provider_map(p) # None /\ Truthy(KeyAttr(provider_map(p)))
    THEN KeyAttr(provider_map(p))
    ELSE AlternateKeyFrom(p, 1)

\* APIKeySettings.get_key_for_provider(provider): the key returned, named
\* by the provider it belongs to, or None
get_key_for_provider(provider) ==
    LET p == IF Truthy(provider) THEN Lower(provider) ELSE default_provider
    IN  IF provider_map(p) # None /\ Truthy(KeyAttr(provider_map(p)))
        THEN KeyAttr(provider_map(p))
        ELSE IF p # default_provider
             THEN KeyOf(default_provider)
             ELSE AlternateKeyFrom(p, 1)

\* APIKeySettings.has_key_for_provider
has_key_for_provider(provider) ==
    LET key == get_key_for_provider(provider)
    IN  key # None /\ key # ""

(***************************************************************************)
(* User settings                                                           *)
(***************************************************************************)
\* the three UserSettingsService instances: app.user_settings_service,
\* translation_service.user_settings_service and the RAG service's
Instances == {"app", "ts", "rag"}

\* user ids a token can resolve to; None is the anonymous caller
KnownUsers == {"sample_user_1", "sample_user_2", "admin"}
UserIds == KnownUsers \cup {"new_user"}

\* UserSettingsService.create_sample_settings: the content of a fresh
\* settings file
sample_settings ==
    [u \in KnownUsers |->
        CASE u = "sample_user_1" ->
                [llm_provider |-> "openai", allow_model_selection |-> TRUE,
                 web_translation_service |-> "google"]
          [] u = "sample_user_2" ->
                [llm_provider |-> "anthropic", allow_model_selection |-> FALSE,
                 web_translation_service |-> "none"]
          [] u = "admin" ->
                [llm_provider |-> "siliconflow", allow_model_selection |-> TRUE,
                 web_translation_service |-> "none"]]

\* UserSettingsService.default_settings
default_settings ==
    [llm_provider |-> DEFAULT_LLM_MODEL,
     allow_model_selection |-> allow_user_model_selection,
     web_translation_service |-> "none"]

\* UserSettingsService.get_user_settings: the settings returned
get_user_settings(inst, user_id) ==
    IF ~Truthy(user_id) THEN default_settings
    ELSE IF user_id \in DOMAIN settings_cache[inst]
         THEN settings_cache[inst][user_id]
         ELSE default_settings

\* UserSettingsService.get_user_settings: the cache it leaves behind (an
\* unknown user gets a copy of the default settings)
CacheAfterGet(cache, user_id) ==
    IF Truthy(user_id) /\ user_id \notin DOMAIN cache
    THEN cache @@ (user_id :> default_settings)
    ELSE cache

\* whether get_user_settings(inst, user_id) calls save_settings
SavesSettings(inst, user_id) ==
    Truthy(user_id) /\ user_id \notin DOMAIN settings_cache[inst]

get_user_llm_provider(inst, user_id) ==
    get_user_settings(inst, user_id).llm_provider

is_model_selection_allowed(inst, user_id) ==
    get_user_settings(inst, user_id).allow_model_selection

get_web_translation_service(inst, user_id) ==
    get_user_settings(inst, user_id).web_translation_service

\* TranslationService.is_model_selection_allowed
ServiceModelSelectionAllowed(inst, user_id) ==
    IF Truthy(user_id) THEN is_model_selection_allowed(inst, user_id)
    ELSE allow_user_model_selection

(***************************************************************************)
(* Provider resolution: TranslationService.get_llm                         *)
(***************************************************************************)
\* self.default_model of TranslationService (the environment value, not
\* lower-cased)
default_model == DEFAULT_LLM_MODEL

\* the if/elif chain of get_llm: the vendor whose client is constructed
\* for a provider name; the final else constructs the OpenAI client
ClientFor(provider) ==
    CASE provider \in {"openai", "chatgpt"}         -> "openai"
      [] provider \in {"anthropic", "claude"}       -> "anthropic"
      [] provider \in {"google", "vertex", "grok"}  -> "google"
      [] provider = "groq"                          -> "groq"
      [] provider = "cohere"                        -> "cohere"
      [] provider = "huggingface"                   -> "huggingface"
      [] provider = "deepseek"                      -> "deepseek"
      [] provider = "siliconflow"                   -> "siliconflow"
      [] OTHER                                      -> "openai"

\* whether the name reaches one of the named branches of the chain
InChain(provider) == provider \in Providers \cup Aliases

\* the `for test_provider in [...]` loop of get_llm: first provider of the
\* fixed order, from position i on, for which get_key_for_provider is truthy
RECURSIVE FallbackProviderFrom(_)
FallbackProviderFrom(i) ==
    IF i > Len(ProviderOrder) THEN None
    ELSE IF Truthy(get_key_for_provider(ProviderOrder[i]))
         THEN ProviderOrder[i]
         ELSE FallbackProviderFrom(i + 1)

NoKeysError == "No API keys configured for any provider. Please configure at least one LLM provider API key."

\* get_llm without the user-settings override of lines 60-61
get_llm_NoOverride(inst, provider, user_id) ==
    LET p1 == Lower(IF Truthy(provider) THEN provider ELSE default_model)
        k1 == get_key_for_provider(p1)
    IN  IF ~Truthy(k1)
        THEN [ok |-> FALSE, provider |-> p1, client |-> None, api_key |-> None,
              error |-> NoKeysError]
        ELSE [ok |-> TRUE, provider |-> p1, client |-> ClientFor(p1),
              api_key |-> IF InChain(p1) THEN k1
                          ELSE get_key_for_provider("openai"),
              error |-> None]

\* TranslationService.get_llm(provider, user_id), up to the constructor
\* call: which client is constructed and with whose key, or the ValueError
get_llm(inst, provider, user_id) ==
    LET p0 == IF Truthy(user_id) /\ ~is_model_selection_allowed(inst, user_id)
              THEN get_user_llm_provider(inst, user_id)
              ELSE provider
        p1 == Lower(IF Truthy(p0) THEN p0 ELSE default_model)
        k1 == get_key_for_provider(p1)
        k2 == get_key_for_provider(default_model)
        fb == FallbackProviderFrom(1)
        p3 == IF Truthy(k1) THEN p1
              ELSE IF Truthy(k2) THEN default_model
              ELSE IF fb # None THEN fb ELSE default_model
        k3 == IF Truthy(k1) THEN k1
              ELSE IF Truthy(k2) THEN k2
              ELSE IF fb # None THEN get_key_for_provider(fb) ELSE None
    IN  IF ~Truthy(k3)
        THEN [ok |-> FALSE, provider |-> p3, client |-> None, api_key |-> None,
              error |-> NoKeysError]
        ELSE [ok |-> TRUE, provider |-> p3, client |-> ClientFor(p3),
              api_key |-> IF InChain(p3) THEN k3
                          ELSE get_key_for_provider("openai"),
              error |-> None]

(***************************************************************************)
(* Job registry                                                            *)
(***************************************************************************)
PENDING == "pending"
PROCESSING == "processing"
COMPLETED == "completed"
FAILED == "failed"

\* translations_db.get(id) when the id has no entry
NoRecord == [status |-> None, downloadUrl |-> None, errorMessage |-> None]

\* progress_tracker has no entry for the id
NoProgress == -1

\* models.translation.Translation, the fields the pipelines set
Translation(status, downloadUrl, errorMessage) ==
    [status |-> status, downloadUrl |-> downloadUrl,
     errorMessage |-> errorMessage]

DownloadUrl(id) == "/api/translation/download/" \o ToString(id)

\* the record process_translation stores when it starts
ProcessingRecord == Translation(PROCESSING, None, None)

\* the record process_translation stores on success
CompletedRecord(id) == Translation(COMPLETED, DownloadUrl(id), None)

\* a Failed record that keeps the download URL of the job
FailedRecord_KeepsUrl(error_message) ==
    Translation(FAILED, "/api/translation/download/", error_message)

\* the record the except blocks of process_translation store
FailedRecord(error_message) == Translation(FAILED, None, error_message)

\* what get_translation_status returns for an id without entry (None)
NoStatus == [status |-> None, progress |-> 0, downloadUrl |-> None,
             errorMessage |-> None]

\* TranslationService.get_translation_status / RAGTranslationService.
\* get_translation_status: None for an unknown id, else the record with
\* progress_tracker.get(id, 0)
get_translation_status(id) ==
    IF translations_db[id] = NoRecord THEN NoStatus
    ELSE [status |-> translations_db[id].status,
          progress |-> IF progress_tracker[id] = NoProgress THEN 0
                       ELSE progress_tracker[id],
          downloadUrl |-> translations_db[id].downloadUrl,
          errorMessage |-> translations_db[id].errorMessage]

(***************************************************************************)
(* File names and paths                                                    *)
(***************************************************************************)
\* a file name is kept as what os.path.splitext makes of it: the part before
\* the last dot and the extension, dot included ("" when there is none)
Document == [stem |-> "doc", ext |-> ".txt"]
FileNames == {Document, [stem |-> "translated", ext |-> ".txt"],
              [stem |-> "README", ext |-> ""]}

\* the name as one string
FileName(name) == name.stem \o name.ext

\* os.path.join(directory, name)
join(directory, name) == directory \o "/" \o name

TRANSLATIONS_DIR == "translations"

\* FileService.save_translation: the path it writes the text to and returns
save_translation(translation_id, original_filename) ==
    join(TRANSLATIONS_DIR,
         ToString(translation_id) \o "_translated" \o original_filename.ext)

(***************************************************************************)
(* Pipeline tasks                                                          *)
(***************************************************************************)
NoTask == [pipeline |-> None, llm_provider |-> None, user_id |-> None,
           docs |-> 0, i |-> 0, tm_matches |-> {}, error |-> None,
           createdAt |-> 0, metadata |-> None, original_filename |-> None,
           output_path |-> None, client |-> None, vector_store |-> None]

\* texts of the exceptions the stages raise
ExtractError == "Error extracting text from file"
VectorStoreError == "vector store error"
LLMError == "Failed to initialize LLM"
ProviderError == "provider error"
SaveError == "Could not save translation"
TMXError == "could not write tmx file"
AttributeError == "'Translation' object has no attribute 'get'"
NoneTypeError == "'NoneType' object has no attribute 'similarity_search'"

\* the state of the user-settings caches and file after get_user_settings
\* (inst, user_id) ran on the state st
SettingsAfter(st, inst, user_id) ==
    IF Truthy(user_id) /\ user_id \notin DOMAIN st.cache[inst]
    THEN [cache |-> [st.cache EXCEPT ![inst] = @ @@ (user_id :> default_settings)],
          file  |-> st.cache[inst] @@ (user_id :> default_settings)]
    ELSE st

SettingsNow == [cache |-> settings_cache, file |-> settings_file]

(***************************************************************************)
(* POST /api/translation/upload                                            *)
(***************************************************************************)
\* the list comprehension of upload_document: providers of the fixed order
\* for which has_key_for_provider holds
available_providers ==
    SelectSeq(ProviderOrder, LAMBDA p : has_key_for_provider(p))

\* upload_document, lines 148-170: the provider selected before the key check
SelectedProvider(llmProvider, user_id) ==
    LET is_allowed == ServiceModelSelectionAllowed("ts", user_id)
        sel == IF ~is_allowed /\ Truthy(llmProvider)
               THEN get_user_llm_provider("app", user_id)
               ELSE llmProvider
    IN  IF ~Truthy(sel) THEN default_provider ELSE sel

\* upload_document without the `if not available_providers: raise`
KeyCheckRaises_Missing(selected_provider) == 0

\* upload_document, lines 172-203: the HTTPException raised by the key check
\* (0 when none is raised)
KeyCheckRaises(selected_provider) ==
    IF ~has_key_for_provider(selected_provider) /\ Len(available_providers) = 0
    THEN 400 ELSE 0

\* upload_document, lines 172-203: the provider handed to the pipeline
ProviderAfterKeyCheck(selected_provider) ==
    IF ~has_key_for_provider(selected_provider) /\ Len(available_providers) > 0
    THEN available_providers[1]
    ELSE selected_provider

\* the `except Exception` block that closes upload_document and
\* check_translation_status: whatever was raised inside the try, an
\* HTTPException included, leaves as HTTPException(status_code=500)
HandlerExcept(raised_code) == 500

\* the user-settings reads of upload_document
UploadSettings(llmProvider, user_id) ==
    LET st1 == SettingsAfter(SettingsNow, "ts", user_id)
    IN  IF ~ServiceModelSelectionAllowed("ts", user_id) /\ Truthy(llmProvider)
        THEN SettingsAfter(st1, "app", user_id)
        ELSE st1

NoResponse == [op |-> None, code |-> 0, raised |-> 0, id |-> 0, body |-> NoStatus]

upload_document(llmProvider, user_id, save_ok, filename) ==
    LET selected == SelectedProvider(llmProvider, user_id)
        raised   == KeyCheckRaises(selected)
        st       == UploadSettings(llmProvider, user_id)
        id       == next_id + 1
    IN  /\ next_id < MaxJobs
        /\ settings_cache' = st.cache
        /\ settings_file' = st.file
        /\ IF raised # 0
           THEN \* HTTPException(400) raised inside the try
                /\ response' = [op |-> "upload", code |-> HandlerExcept(raised),
                                raised |-> raised, id |-> 0, body |-> NoStatus]
                /\ UNCHANGED jobVars
           ELSE IF ~save_ok
           THEN \* file_service.save_upload raised HTTPException(500); the
                \* uuid is spent
                /\ response' = [op |-> "upload", code |-> HandlerExcept(500),
                                raised |-> 500, id |-> 0, body |-> NoStatus]
                /\ next_id' = id
                /\ UNCHANGED <<translations_db, progress_tracker, pc, task, uploads>>
           ELSE /\ next_id' = id
                /\ uploads' = uploads \cup {id}
                /\ task' = [task EXCEPT ![id] =
                              [pipeline |-> IF rag_enabled THEN "rag" ELSE "std",
                               llm_provider |-> ProviderAfterKeyCheck(selected),
                               user_id |-> user_id, docs |-> 0, i |-> 0,
                               tm_matches |-> {}, error |-> None,
                               createdAt |-> 0, metadata |-> None,
                               original_filename |-> filename,
                               output_path |-> None, client |-> None,
                               vector_store |-> None]]
                /\ pc' = [pc EXCEPT ![id] = "scheduled"]
                /\ response' = [op |-> "upload", code |-> 200, raised |-> 0,
                                id |-> id,
                                body |-> [status |-> PROCESSING, progress |-> 0,
                                          downloadUrl |-> None,
                                          errorMessage |-> None]]
                /\ UNCHANGED <<translations_db, progress_tracker>>
        /\ UNCHANGED <<envVars, scoreVars, auxVars, resVars>>

(***************************************************************************)
(* GET /api/translation/status/{translation_id}                            *)
(***************************************************************************)
check_translation_status(id) ==
    LET status == get_translation_status(id)
    IN  /\ response' =
              IF status = NoStatus
              THEN [op |-> "status", code |-> HandlerExcept(404),
                    raised |-> 404, id |-> id, body |-> NoStatus]
              ELSE [op |-> "status", code |-> 200, raised |-> 0, id |-> id,
                    body |-> status]
        /\ UNCHANGED <<envVars, scoreVars, auxVars, setVars, jobVars, resVars>>

(***************************************************************************)
(* TranslationService.process_translation                                  *)
(***************************************************************************)
\* _update_progress: the value stored for the id
UpdateProgress(tracker, id, progress) == [tracker EXCEPT ![id] = progress]

\* save_metadata without its try/except: a failed write propagates
SaveMetadataRaises_Propagates == TRUE

\* FileService.save_metadata never raises: its write sits in a try whose
\* except only prints
SaveMetadataRaises == FALSE

\* save_metadata with the write outside the try: a failed write raises
save_metadata_Unguarded(written) == ~written

\* FileService.save_metadata(translation_id, metadata): whether the call
\* raises, given whether open/write/json.dumps went through; the write is
\* inside `try`, and `except Exception` prints a warning and returns
save_metadata(written) == SaveMetadataRaises /\ ~written

\* what became of the metadata file of the id
Metadata(id, written) ==
    [task EXCEPT ![id].metadata = IF written THEN "saved" ELSE "lost"]

\* line 212: the message the inner except of the LLM set-up stores
LLMInitMessage(llm_error) == "LLM initialization failed: " \o llm_error

\* createdAt=datetime.now().isoformat() of the first record stored for the
\* id, which every later record of the id takes over: the clock is one
\* past the latest createdAt given out
Created(id) ==
    LET latest == CHOOSE t \in {task[j].createdAt : j \in DOMAIN task} :
                     \A j \in DOMAIN task : task[j].createdAt <= t
    IN  [task EXCEPT ![id].createdAt = latest + 1]

\* `except Exception as e`: the text of the exception the coroutine caught
Caught(id, e) == [task EXCEPT ![id].error = e]

\* an except block that marks every job of the registry Failed
StdExcept_EveryJob(id, error_message) ==
    /\ translations_db' = [j \in DOMAIN translations_db |-> FailedRecord(error_message)]
    /\ task' = Caught(id, error_message)
    /\ pc' = [pc EXCEPT ![id] = "fail_meta"]

\* save_translation returned: the path the artifact of the id was written to
Saved(id) ==
    [task EXCEPT ![id].output_path =
                    save_translation(id, task[id].original_filename)]

\* the outer `except Exception as e` of process_translation: store the
\* Failed record with str(e), then await save_metadata
StdExcept(id, error_message) ==
    /\ translations_db' = [translations_db EXCEPT ![id] = FailedRecord(error_message)]
    /\ task' = Caught(id, error_message)
    /\ pc' = [pc EXCEPT ![id] = "fail_meta"]

\* lines 163-180: store the Processing record, progress 0.1 then 0.2, and
\* await extract_text
StdStart(id) ==
    /\ pc[id] = "scheduled"
    /\ task[id].pipeline = "std"
    /\ translations_db' = [translations_db EXCEPT ![id] = ProcessingRecord]
    /\ task' = Created(id)
    /\ progress_tracker' = UpdateProgress(UpdateProgress(progress_tracker, id, 10), id, 20)
    /\ pc' = [pc EXCEPT ![id] = "extract"]
    /\ UNCHANGED <<envVars, scoreVars, auxVars, setVars, resVars, uploads, next_id, response>>

\* the user-settings reads of get_llm and of the web-service lookup of one
\* pipeline instance
PipelineSettings(inst, user_id) == SettingsAfter(SettingsNow, inst, user_id)

\* lines 180-238 (and 245-257 for a document without chunks): from the
\* return of extract_text to the next await that suspends
StdAfterExtract(id) ==
    /\ pc[id] = "extract"
    /\ task[id].pipeline = "std"
    /\ \/ \* extract_text raises
          /\ StdExcept(id, ExtractError)
          /\ UNCHANGED <<progress_tracker, setVars>>
       \/ \* _create_vector_store raises (FAISS, embeddings)
          /\ StdExcept(id, VectorStoreError)
          /\ progress_tracker' = UpdateProgress(progress_tracker, id, 50)
          /\ UNCHANGED setVars
       \/ \* get_llm or _setup_translation_agent raises: inner except
          /\ \E msg \in {LLMError} \cup
                        (IF get_llm("ts", task[id].llm_provider, task[id].user_id).ok
                         THEN {} ELSE {NoKeysError}) :
                /\ translations_db' = [translations_db EXCEPT ![id] =
                      FailedRecord(LLMInitMessage(msg))]
                /\ task' = Caught(id, msg)
          /\ progress_tracker' = UpdateProgress(progress_tracker, id, 60)
          /\ settings_cache' = PipelineSettings("ts", task[id].user_id).cache
          /\ settings_file' = PipelineSettings("ts", task[id].user_id).file
          /\ pc' = [pc EXCEPT ![id] = "fail_meta"]
       \/ \* all of it succeeds
          /\ get_llm("ts", task[id].llm_provider, task[id].user_id).ok
          /\ \E docs \in 0..MaxChunks :
                /\ task' = [task EXCEPT
                              ![id].docs = docs, ![id].i = 0,
                              ![id].client = get_llm("ts", task[id].llm_provider,
                                                     task[id].user_id).client]
                /\ IF docs = 0
                   THEN \* the loop of _translate_with_agent does not run
                        /\ progress_tracker' = UpdateProgress(progress_tracker, id, 80)
                        /\ pc' = [pc EXCEPT ![id] = "enhance"]
                   ELSE /\ progress_tracker' = UpdateProgress(progress_tracker, id, 70)
                        /\ pc' = [pc EXCEPT ![id] = "translate"]
          /\ settings_cache' = PipelineSettings("ts", task[id].user_id).cache
          /\ settings_file' = PipelineSettings("ts", task[id].user_id).file
          /\ UNCHANGED translations_db
    /\ UNCHANGED <<envVars, scoreVars, auxVars, resVars, uploads, next_id, response>>

\* _translate_with_agent, lines 440-456, and lines 245-257: agent.run for
\* chunk i returns or raises
StdChunkDone(id) ==
    /\ pc[id] = "translate"
    /\ task[id].pipeline = "std"
    /\ \/ /\ StdExcept(id, ProviderError)
          /\ UNCHANGED progress_tracker
       \/ /\ task' = [task EXCEPT ![id].i = @ + 1]
          /\ IF task[id].i + 1 < task[id].docs
             THEN UNCHANGED <<progress_tracker, pc>>
             ELSE /\ progress_tracker' = UpdateProgress(progress_tracker, id, 80)
                  /\ pc' = [pc EXCEPT ![id] = "enhance"]
          /\ UNCHANGED translations_db
    /\ UNCHANGED <<envVars, scoreVars, auxVars, setVars, resVars, uploads, next_id, response>>

\* a pipeline that records Completed when enhance_translation returns,
\* before the artifact is saved
StdAfterEnhance_CompletesEarly(id) ==
    /\ pc[id] = "enhance"
    /\ task[id].pipeline = "std"
    /\ progress_tracker' = UpdateProgress(progress_tracker, id, 90)
    /\ translations_db' = [translations_db EXCEPT ![id] = CompletedRecord(id)]
    /\ pc' = [pc EXCEPT ![id] = "save"]
    /\ UNCHANGED <<envVars, scoreVars, auxVars, setVars, resVars, task, uploads, next_id, response>>

\* process_translation with the progress of step 9 mistyped (0.5 for 0.9)
StdAfterEnhance_WrongProgress(id) ==
    /\ pc[id] = "enhance"
    /\ task[id].pipeline = "std"
    /\ progress_tracker' = UpdateProgress(progress_tracker, id, 50)
    /\ pc' = [pc EXCEPT ![id] = "save"]
    /\ UNCHANGED <<envVars, scoreVars, auxVars, setVars, resVars, translations_db, task, uploads,
                   next_id, response>>

\* lines 252-265: enhance_translation returns (it has no failing path),
\* progress 0.9, await save_translation
StdAfterEnhance(id) ==
    /\ pc[id] = "enhance"
    /\ task[id].pipeline = "std"
    /\ progress_tracker' = UpdateProgress(progress_tracker, id, 90)
    /\ pc' = [pc EXCEPT ![id] = "save"]
    /\ UNCHANGED <<envVars, scoreVars, auxVars, setVars, resVars, translations_db, task, uploads,
                   next_id, response>>

\* finalization without the final progress update of line 307
StdFinalize_NoFinalProgress(id) ==
    /\ translations_db' = [translations_db EXCEPT ![id] = CompletedRecord(id)]
    /\ UNCHANGED progress_tracker
    /\ pc' = [pc EXCEPT ![id] = "meta"]

\* lines 295-307: the Completed record and the final progress update
StdFinalize(id) ==
    /\ translations_db' = [translations_db EXCEPT ![id] = CompletedRecord(id)]
    /\ progress_tracker' = UpdateProgress(progress_tracker, id, 100)
    /\ pc' = [pc EXCEPT ![id] = "meta"]

\* lines 261-322: save_translation returns or raises; on success the record
\* is finalized and save_metadata awaited
StdAfterSave(id) ==
    /\ pc[id] = "save"
    /\ task[id].pipeline = "std"
    /\ \/ /\ StdExcept(id, SaveError)
          /\ UNCHANGED progress_tracker
       \/ /\ StdFinalize(id)
          /\ task' = Saved(id)
    /\ UNCHANGED <<envVars, scoreVars, auxVars, setVars, resVars, uploads, next_id, response>>

(***************************************************************************)
(* RAGTranslationService.process_translation_with_rag                      *)
(***************************************************************************)
\* RAGTranslationService._update_progress: its body is `pass`
RagUpdateProgress(tracker, id, progress) == tracker

\* RAGTranslationService._update_translation_status, line 476:
\* translations_db.get(id, {}) is the stored Translation when the id has an
\* entry, and a pydantic model has no .get: AttributeError, raised before
\* the assignment of line 470 happens
RagStatusWriteRaises(id) == translations_db[id] # NoRecord

\* the except block of process_translation_with_rag, lines 371-388: the
\* Failed write; when that write raises, the exception leaves the coroutine
RagExceptWrite(id, error_message) ==
    IF RagStatusWriteRaises(id)
    THEN /\ pc' = [pc EXCEPT ![id] = "raised"]
         /\ UNCHANGED translations_db
    ELSE /\ translations_db' = [translations_db EXCEPT ![id] = FailedRecord(error_message)]
         /\ pc' = [pc EXCEPT ![id] = "fail_meta"]

\* the except block with the exception it caught
RagExcept(id, error_message) ==
    /\ task' = Caught(id, error_message)
    /\ RagExceptWrite(id, error_message)

\* lines 166-182: the Processing write and the await of extract_text
RagStart(id) ==
    /\ pc[id] = "scheduled"
    /\ task[id].pipeline = "rag"
    /\ IF RagStatusWriteRaises(id)
       THEN RagExcept(id, AttributeError)
       ELSE /\ translations_db' = [translations_db EXCEPT ![id] = ProcessingRecord]
            /\ pc' = [pc EXCEPT ![id] = "extract"]
            /\ task' = Created(id)
    /\ progress_tracker' = RagUpdateProgress(RagUpdateProgress(progress_tracker, id, 10), id, 15)
    /\ UNCHANGED <<envVars, scoreVars, auxVars, setVars, resVars, uploads, next_id, response>>

\* lines 182-186: extract_text returns or raises; await detect_language
RagAfterExtract(id) ==
    /\ pc[id] = "extract"
    /\ task[id].pipeline = "rag"
    /\ \/ RagExcept(id, ExtractError)
       \/ /\ pc' = [pc EXCEPT ![id] = "detect"]
          /\ UNCHANGED <<translations_db, task>>
    /\ progress_tracker' = RagUpdateProgress(progress_tracker, id, 20)
    /\ UNCHANGED <<envVars, scoreVars, auxVars, setVars, resVars, uploads, next_id, response>>

\* the `for i, doc in enumerate(docs)` loop of lines 224-288 skips the
\* chunks that have a translation-memory match: index of the next chunk,
\* from `from` on, that goes to the LLM (docs when there is none)
RECURSIVE NextLLMChunk(_, _, _)
NextLLMChunk(docs, tm_matches, from) ==
    IF from >= docs THEN docs
    ELSE IF from \in tm_matches THEN NextLLMChunk(docs, tm_matches, from + 1)
    ELSE from

\* what _create_vector_store returns: the FAISS store, or None when
\* building it raised
VectorStores == {"built", None}

\* lines 237-239: `if self.rag_enabled and len(docs) > 1:
\* vector_store.similarity_search(...)` with a store that is None
SimilaritySearchRaises(vector_store, docs) ==
    rag_enabled /\ docs > 1 /\ vector_store = None

\* lines 186-278: split, translation-memory lookup, vector store (its
\* errors are swallowed), get_llm, and the loop up to the first LLM call
RagAfterDetect(id) ==
    /\ pc[id] = "detect"
    /\ task[id].pipeline = "rag"
    /\ \/ \* get_llm raises (client constructor)
          RagExcept(id, LLMError)
       \/ \E docs \in 0..MaxChunks : \E tm \in SUBSET (0..(docs - 1)) :
          \E vector_store \in VectorStores :
             LET first == NextLLMChunk(docs, tm, 0)
                 split == [task EXCEPT ![id].docs = docs, ![id].i = first,
                                       ![id].tm_matches = tm,
                                       ![id].vector_store = vector_store]
             IN  IF first < docs /\ SimilaritySearchRaises(vector_store, docs)
                 THEN \* line 239, in the first iteration that needs the LLM
                      /\ task' = [split EXCEPT ![id].error = NoneTypeError]
                      /\ RagExceptWrite(id, NoneTypeError)
                 ELSE /\ task' = split
                      /\ pc' = [pc EXCEPT ![id] =
                                   IF first < docs THEN "translate" ELSE "enhance"]
                      /\ UNCHANGED translations_db
    /\ progress_tracker' = RagUpdateProgress(progress_tracker, id, 60)
    /\ settings_cache' = PipelineSettings("rag", task[id].user_id).cache
    /\ settings_file' = PipelineSettings("rag", task[id].user_id).file
    /\ UNCHANGED <<envVars, scoreVars, auxVars, resVars, uploads, next_id, response>>

\* lines 271-302: the LLM call for chunk i returns or raises, the
\* translation is written to the translation memory (create_tmx_file), the
\* loop runs on to the next LLM call or to enhance_translation
RagChunkDone(id) ==
    /\ pc[id] = "translate"
    /\ task[id].pipeline = "rag"
    /\ \/ \E msg \in {ProviderError, TMXError} : RagExcept(id, msg)
       \/ LET next == NextLLMChunk(task[id].docs, task[id].tm_matches, task[id].i + 1)
          IN  /\ task' = [task EXCEPT ![id].i = next]
              /\ pc' = [pc EXCEPT ![id] =
                           IF next < task[id].docs THEN "translate" ELSE "enhance"]
              /\ UNCHANGED translations_db
    /\ progress_tracker' = RagUpdateProgress(progress_tracker, id, 80)
    /\ UNCHANGED <<envVars, scoreVars, auxVars, setVars, resVars, uploads, next_id, response>>

\* lines 297-310: enhance_translation returns, await save_translation
RagAfterEnhance(id) ==
    /\ pc[id] = "enhance"
    /\ task[id].pipeline = "rag"
    /\ progress_tracker' = RagUpdateProgress(progress_tracker, id, 90)
    /\ pc' = [pc EXCEPT ![id] = "save"]
    /\ UNCHANGED <<envVars, scoreVars, auxVars, setVars, resVars, translations_db, task, uploads,
                   next_id, response>>

\* lines 306-366: save_translation returns or raises; on success the
\* Completed write of lines 341-348, then await save_metadata
RagAfterSave(id) ==
    /\ pc[id] = "save"
    /\ task[id].pipeline = "rag"
    /\ \/ RagExcept(id, SaveError)
       \/ IF RagStatusWriteRaises(id)
          THEN \* the artifact is written and the Completed write raises
               /\ task' = [Saved(id) EXCEPT ![id].error = AttributeError]
               /\ RagExceptWrite(id, AttributeError)
          ELSE /\ translations_db' = [translations_db EXCEPT ![id] = CompletedRecord(id)]
               /\ pc' = [pc EXCEPT ![id] = "meta"]
               /\ task' = Saved(id)
    /\ UNCHANGED <<envVars, scoreVars, auxVars, setVars, resVars, progress_tracker, uploads,
                   next_id, response>>

\* the await of save_metadata returns and the coroutine ends:
\* process_translation line 322, 232 or 342 (were save_metadata to raise at
\* line 310, the outer except would run; at line 232 or 342, inside the
\* except block, the exception would leave the coroutine), process_translation_with_rag
\* line 366 (then the progress update of line 369) or 383
AfterMetadata(id) ==
    /\ pc[id] \in {"meta", "fail_meta"}
    /\ \E written \in BOOLEAN :
          IF save_metadata(written)
          THEN /\ IF pc[id] = "fail_meta"
                  THEN /\ pc' = [pc EXCEPT ![id] = "raised"]
                       /\ UNCHANGED <<translations_db, task>>
                  ELSE IF task[id].pipeline = "std"
                       THEN StdExcept(id, "Could not save metadata")
                       ELSE RagExcept(id, "Could not save metadata")
               /\ UNCHANGED progress_tracker
          ELSE /\ pc' = [pc EXCEPT ![id] = "done"]
               /\ task' = Metadata(id, written)
               /\ progress_tracker' =
                     IF task[id].pipeline = "rag" /\ pc[id] = "meta"
                     THEN RagUpdateProgress(progress_tracker, id, 100)
                     ELSE progress_tracker
               /\ UNCHANGED translations_db
    /\ UNCHANGED <<envVars, scoreVars, auxVars, setVars, resVars, uploads, next_id, response>>

(***************************************************************************)
(* Translation memory: TMXService                                          *)
(*                                                                         *)
(* A text is a string.  translation_units is a dict, whose items keep      *)
(* their insertion order: it is kept as the sequence of its values.        *)
(* Timestamps are the value of the clock `now`, which every operation that *)
(* reads datetime.now() advances.                                          *)
(***************************************************************************)
\* the TMXService instances: app_tmx.tmx_service serves the TMX router,
\* RAGTranslationService.tmx_service the pipeline
TmxInstances == {"router", "pipeline"}

\* xml:lang values of the units
Langs == {"en", "fr", "de"}

\* a variants dict without any language
NoVariants == [l \in Langs |-> None]

\* a variants dict: None stands for a language that is not a key
Variants(en, fr, de) == [l \in Langs |->
                            CASE l = "en" -> en [] l = "fr" -> fr [] l = "de" -> de]

\* the dict stored for one translation unit (parse_tmx_file lines 96-102,
\* create_tmx_file lines 177-186)
Unit(id, variants, created_at, last_updated) ==
    [id |-> id, variants |-> variants, created_at |-> created_at,
     last_updated |-> last_updated]

\* the keys of translation_units
UnitIds(units) == {units[i].id : i \in 1..Len(units)}

\* translation_units[tu_id]: position of the unit with that key
UnitAt(units, id) == CHOOSE i \in 1..Len(units) : units[i].id = id

\* str(uuid.uuid4()): the n-th value drawn
Uuid(n) == "uuid-" \o ToString(n)

\* cosine similarity of the embeddings of two texts (util.cos_sim), in
\* percent: a text equals itself, "hello" and "hello!" are paraphrases,
\* other texts are unrelated
cos_sim(query, source_text) ==
    IF query = source_text THEN 100
    ELSE IF {query, source_text} = {"hello", "hello!"} THEN 85
    ELSE 20

\* parse_tmx_file lines 80-85: the variants of a <tu>; a <tuv> without seg
\* text is left out
ParseVariants(tuvs) == [l \in Langs |-> IF Truthy(tuvs[l]) THEN tuvs[l] ELSE None]

\* a tu_id that ignores the tuid attribute
tu_id_AlwaysFresh(tu, fresh) == fresh

\* parse_tmx_file line 77: tu.get('tuid', str(uuid.uuid4()))
tu_id(tu, fresh) == IF tu.tuid # None THEN tu.tuid ELSE fresh

\* an update that replaces the variants of the unit by the imported ones
MergeVariants_Replace(old, new) == new

\* parse_tmx_file line 91: dict.update
MergeVariants(old, new) ==
    [l \in Langs |-> IF new[l] # None THEN new[l] ELSE old[l]]

\* parse_tmx_file lines 75-103, one iteration of the loop over the <tu>
\* elements: `fresh` is the uuid drawn, t the time
ImportUnit(units, tu, fresh, t) ==
    LET id       == tu_id(tu, fresh)
        variants == ParseVariants(tu.tuvs)
    IN  IF variants = NoVariants THEN units
        ELSE IF id \in UnitIds(units)
        THEN [units EXCEPT ![UnitAt(units, id)] =
                 [@ EXCEPT !.variants = MergeVariants(@, variants),
                           !.last_updated = t]]
        ELSE Append(units, Unit(id, variants, t, t))

\* parse_tmx_file lines 75-108: the loop from the k-th <tu> on; uuids is the
\* number of uuid4 values drawn before
RECURSIVE ImportUnits(_, _, _, _, _)
ImportUnits(units, tus, k, uuids, t) ==
    IF k > Len(tus) THEN units
    ELSE ImportUnits(ImportUnit(units, tus[k], Uuid(uuids + k), t),
                     tus, k + 1, uuids, t)

\* create_tmx_file lines 155-186 for its one-element list: the unit added
\* to the index under a new uuid, unless a text is empty
create_tmx_file(units, source_text, target_text, source_lang, target_lang, fresh, t) ==
    IF ~Truthy(source_text) \/ ~Truthy(target_text) THEN units
    ELSE Append(units,
                Unit(fresh,
                     [l \in Langs |-> IF l = target_lang THEN target_text
                                      ELSE IF l = source_lang THEN source_text
                                      ELSE None],
                     t, t))

\* TMXService.tmx_dir, the default of TMX_DIRECTORY
tmx_dir == "./tmx_files"

\* the directory before any call: time is int(time.time()), calls the
\* number of create_tmx_file calls made, files the .tmx files with the call
\* that wrote each
NoTmxFiles == [time |-> 0, calls |-> 0, files |-> {}]

\* whole seconds between two calls of create_tmx_file
Elapsed == {0, 1}

\* the clock is counted from the first call
SinceLastCall(dir) == IF dir.calls = 0 THEN {0} ELSE Elapsed

\* create_tmx_file line 189: the name of the file, with the time in whole
\* seconds
output_filename(source_lang, target_lang, t) ==
    "translation_" \o source_lang \o "_to_" \o target_lang \o "_"
       \o ToString(t) \o ".tmx"

\* create_tmx_file lines 188-193: tree.write(output_path) creates the file
\* or replaces the file of that name
write_tmx_file(dir, source_lang, target_lang, elapsed) ==
    LET t           == dir.time + elapsed
        call        == dir.calls + 1
        output_path == join(tmx_dir, output_filename(source_lang, target_lang, t))
    IN  [time  |-> t,
         calls |-> call,
         files |-> {f \in dir.files : f.path # output_path}
                      \cup {[path |-> output_path, call |-> call]}]

\* a search that takes every unit with the source language
relevant_units_SourceOnly(units, source_lang, target_lang) ==
    LET HasSource(u) == u.variants[source_lang] # None
    IN  SelectSeq(units, HasSource)

\* search_translation_memory lines 222-227: the units that have both
\* languages, in index order
relevant_units(units, source_lang, target_lang) ==
    LET HasBoth(u) == /\ u.variants[source_lang] # None
                      /\ u.variants[target_lang] # None
    IN  SelectSeq(units, HasBoth)

\* search_translation_memory lines 243-248: the dict returned for a unit
Match(u, text, source_lang, target_lang) ==
    [source_text |-> u.variants[source_lang],
     target_text |-> u.variants[target_lang],
     similarity  |-> cos_sim(text, u.variants[source_lang]),
     unit_id     |-> u.id]

\* list.sort(key=similarity, reverse=True) is stable: m goes behind every
\* element whose similarity is not smaller
RECURSIVE InsertMatch(_, _)
InsertMatch(sorted, m) ==
    IF sorted = <<>> THEN <<m>>
    ELSE IF Head(sorted).similarity >= m.similarity
         THEN <<Head(sorted)>> \o InsertMatch(Tail(sorted), m)
         ELSE <<m>> \o sorted

RECURSIVE SortFrom(_, _, _)
SortFrom(sorted, matches, k) ==
    IF k > Len(matches) THEN sorted
    ELSE SortFrom(InsertMatch(sorted, matches[k]), matches, k + 1)

\* a search that returns the matches in index order
SortBySimilarity_Unsorted(matches) == matches

\* search_translation_memory line 251
SortBySimilarity(matches) == SortFrom(<<>>, matches, 1)

\* messages of the exceptions of the search
ImportError == "No module named 'sentence_transformers'"

\* search_translation_memory: the import of line 213 is outside the try and
\* its failure leaves the function; a failure of the model (lines 217-237)
\* is caught at line 255 and gives the empty list
search_translation_memory(units, text, source_lang, target_lang, threshold) ==
    IF embedding = "import_error"
    THEN [raised |-> TRUE, matches |-> <<>>]
    ELSE IF embedding = "model_error"
    THEN [raised |-> FALSE, matches |-> <<>>]
    ELSE LET relevant == relevant_units(units, source_lang, target_lang)
             scored   == [i \in 1..Len(relevant) |->
                             Match(relevant[i], text, source_lang, target_lang)]
             AtLeast(m) == m.similarity >= threshold
         IN  [raised  |-> FALSE,
              matches |-> SortBySimilarity(SelectSeq(scored, AtLeast))]

\* the content of tmx_index.json the services start from: empty, or three
\* units of earlier work
SeedIndex ==
    << Unit("seed-1", Variants("hello!", "salut!", None), 0, 0),
       Unit("seed-2", Variants("hello", "bonjour", None), 0, 0),
       Unit("seed-3", Variants("hello", None, "hallo"), 0, 0) >>

InitialIndexes == {<< >>, SeedIndex}

\* the TMX files that are uploaded: their <tu> elements, with the tuid
\* attribute (None when absent) and the seg text of each language
TmxFiles == {"f1", "f2", "f3"}

FileUnits(file) ==
    CASE file = "f1" -> << [tuid |-> "t1", tuvs |-> Variants("bye", "au revoir", None)] >>
      [] file = "f2" -> << [tuid |-> "t1", tuvs |-> Variants("", "adieu", "tschuess")],
                           [tuid |-> "t2", tuvs |-> NoVariants] >>
      [] file = "f3" -> << [tuid |-> None, tuvs |-> Variants("hello", "allo", None)] >>

\* no operation of the TMX router yet
NoTmxOp == [op |-> None, file |-> None, imports |-> 0]

NoSearch == [text |-> None, source_language |-> None, target_language |-> None,
             threshold |-> 0, raised |-> FALSE, matches |-> << >>]

(***************************************************************************)
(* The text of a job on its way through a pipeline: the chunks, their      *)
(* translations, the enhanced text and the saved artifact                  *)
(***************************************************************************)
\* the languages of the job: what _detect_language returns for the
\* document and the targetLanguage of the upload
source_language == "en"
target_language == "fr"

\* page_content of the chunks the text splitter produces
ChunkTexts == {"hello", "bye"}

RECURSIVE SeqsUpTo(_, _)
SeqsUpTo(S, n) ==
    IF n = 0 THEN {<< >>}
    ELSE LET shorter == SeqsUpTo(S, n - 1)
         IN  shorter \cup {Append(s, x) : s \in shorter, x \in S}

\* text_splitter.create_documents([document_text])
SplitResults == SeqsUpTo(ChunkTexts, MaxChunks)

\* what the LLM (the chain's ainvoke, the agent's run) returns
LLMOutputs == {"bonjour"}

\* users the jobs are submitted for
JobUsers == {None, "sample_user_1", "sample_user_2"}

\* the threshold of the lookup, line 205
TMThreshold == 70

\* tm_matches has no entry for the chunk
NoMatch == [source_text |-> None, target_text |-> None, similarity |-> 0,
            unit_id |-> None]

NoJob == [stage |-> "none", pipeline |-> None, user_id |-> None, docs |-> << >>,
          tm_matches |-> << >>, i |-> 0, llm_calls |-> << >>, llm_out |-> << >>,
          translated_chunks |-> << >>, web_translation_service |-> None,
          text |-> None, final_translation |-> None, artifact |-> None,
          error |-> None, web_outcome |-> None]

\* the state of the translation memory in the runs that do not use it
MemoryIdle ==
    /\ embedding = "ok"
    /\ translation_units = [inst \in TmxInstances |-> << >>]
    /\ tmx_index = << >>
    /\ now = 1
    /\ uuid_count = 0
    /\ tmx_op = NoTmxOp
    /\ search_result = NoSearch
    /\ job = NoJob
    /\ tmx_files = NoTmxFiles

\* a lookup that keeps the last match of the list
BestMatch_Last(matches) == matches[Len(matches)]

\* line 209: tm_matches[i] = matches[0]
BestMatch(matches) == matches[1]

\* line 231: the chunk appended for a translation-memory match
TMChunk(match) == match.target_text \o "\n"

\* "\n\n".join(translated_chunks)
RECURSIVE Join(_)
Join(chunks) ==
    IF chunks = << >> THEN ""
    ELSE IF Len(chunks) = 1 THEN chunks[1]
    ELSE chunks[1] \o "\n\n" \o Join(Tail(chunks))

\* enhance_translation lines 46-61: the text returned when no web service
\* is selected
DefaultEnhanced(translated_text) ==
    "[Enhanced by third-party API]\n\n" \o translated_text
        \o "\n\n[Translation completed from " \o source_language \o " to "
        \o target_language \o "]"

\* what a web translation service makes of a text
WebTranslated(text) == "[web] " \o text

\* what happens to the request of a web translation service: a 200
\* response with a translation, an exception (network, JSON, library), a
\* response of another status, or no API key configured for the service
WebOutcomes == {"ok", "error", "non_200", "no_key"}
WebFailures == WebOutcomes \ {"ok"}

\* a translate_text that returns nothing when the service fails
translate_text_NothingOnFailure(text, service, outcome) ==
    IF service = "none" THEN text
    ELSE IF outcome = "ok" THEN WebTranslated(text)
    ELSE None

\* WebTranslationService.translate_text: every _translate_with_* returns
\* its input text when the key is missing, the status is not 200 or an
\* exception is caught
translate_text(text, service, outcome) ==
    IF service = "none" THEN text
    ELSE IF outcome = "ok" THEN WebTranslated(text)
    ELSE text

\* enhance_translation: translate_text when a web service is selected,
\* else the default enhancement
enhance_translation(translated_text, web_service, outcome) ==
    IF Truthy(web_service) /\ web_service # "none"
    THEN translate_text(translated_text, web_service, outcome)
    ELSE DefaultEnhanced(translated_text)

\* the loop over the chunks (process_translation_with_rag lines 224-234,
\* _translate_with_agent line 440) from chunk k up to the next await that
\* suspends: chunks with a translation-memory match are appended, the loop
\* stops at the first chunk that goes to the LLM
RECURSIVE RunLoop(_, _)
RunLoop(j, k) ==
    IF k > Len(j.docs) THEN [j EXCEPT !.i = k, !.stage = "enhance"]
    ELSE IF j.tm_matches[k] # NoMatch
    THEN RunLoop([j EXCEPT !.translated_chunks = Append(@, TMChunk(j.tm_matches[k]))],
                 k + 1)
    ELSE [j EXCEPT !.i = k, !.stage = "translate"]

\* the loop of process_translation_with_rag when _create_vector_store
\* returned None: the first chunk that goes to the LLM calls
\* vector_store.similarity_search (lines 237-239) if the document has
\* several chunks
WithoutVectorStore(j) ==
    IF j.pipeline = "rag" /\ j.stage = "translate"
          /\ SimilaritySearchRaises(None, Len(j.docs))
    THEN [j EXCEPT !.stage = "failed", !.error = NoneTypeError]
    ELSE j

(***************************************************************************)
(* Confidence score of a completed translation, in thousandths             *)
(***************************************************************************)
\* no estimate was made
NoConfidence == [estimator |-> None, source_language |-> None,
                 target_language |-> None, chunk_count |-> 0,
                 tm_match_count |-> 0, score |-> 0]

\* max and min of Python
max(a, b) == IF a >= b THEN a ELSE b
min(a, b) == IF a <= b THEN a ELSE b

\* a list of complex pairs that has the pairs towards English only
complex_pairs_OneWay ==
    {<<"japanese", "english">>, <<"chinese", "english">>, <<"arabic", "english">>}

\* RAGTranslationService._calculate_confidence_score, line 430
complex_pairs ==
    {<<"japanese", "english">>, <<"chinese", "english">>, <<"arabic", "english">>,
     <<"english", "japanese">>, <<"english", "chinese">>, <<"english", "arabic">>}

\* lines 436-437: tm_match_count / chunk_count times 0.15, rounded down to
\* a thousandth
tm_boost(chunk_count, tm_match_count) ==
    IF chunk_count > 0 THEN (tm_match_count * 150) \div chunk_count ELSE 0

\* an estimator that returns its score as a percentage
rag_calculate_confidence_score_Percent(src, tgt, chunk_count, tm_match_count) ==
    LET s0 == 800
        s1 == IF chunk_count > 20 THEN s0 - 50 ELSE s0
        s2 == IF tm_match_count > 0 THEN s1 + tm_boost(chunk_count, tm_match_count)
              ELSE s1
        s3 == IF <<src, tgt>> \in complex_pairs THEN s2 - 100 ELSE s2
    IN  max(0, min(100000, s3 * 100))

\* RAGTranslationService._calculate_confidence_score
rag_calculate_confidence_score(src, tgt, chunk_count, tm_match_count) ==
    LET s0 == 800
        s1 == IF chunk_count > 20 THEN s0 - 50 ELSE s0
        s2 == IF tm_match_count > 0 THEN s1 + tm_boost(chunk_count, tm_match_count)
              ELSE s1
        s3 == IF <<src, tgt>> \in complex_pairs THEN s2 - 100 ELSE s2
    IN  max(0, min(1000, s3))

\* TranslationService._calculate_confidence_score, line 465
common_pairs == {<<"en", "es">>, <<"en", "fr">>, <<"en", "de">>, <<"en", "it">>}

\* TranslationService._calculate_confidence_score
calculate_confidence_score(src, tgt, chunk_count) ==
    LET b0 == 850
        b1 == IF <<src, tgt>> \in common_pairs \/ <<tgt, src>> \in common_pairs
              THEN b0 + 50 ELSE b0
        b2 == IF chunk_count < 5 THEN b1 + 50
              ELSE IF chunk_count > 20 THEN b1 - 50
              ELSE b1
    IN  min(990, max(500, b2))

(***************************************************************************)
(* ChromaService: one Chroma directory per user                            *)
(*                                                                         *)
(* chroma.index is the content of the collection "translations" of each    *)
(* directory; chroma.added remembers for which user id each document was   *)
(* added; chroma.last is the last call and what it returned.               *)
(***************************************************************************)
\* user ids of the calls: none, empty, and two users
ChromaUsers == {None, "", "userA", "userB"}

\* CHROMA_DB_PATH
base_path == "backend/data/chroma"

\* a get_user_db_path that gives every user the base directory
get_user_db_path_Shared(user_id) ==
    IF ~Truthy(user_id) THEN [raised |-> TRUE, path |-> None]
    ELSE [raised |-> FALSE, path |-> base_path]

\* ChromaService.get_user_db_path: ValueError without a user id, else
\* os.path.join(base_path, user_id)
get_user_db_path(user_id) ==
    IF ~Truthy(user_id) THEN [raised |-> TRUE, path |-> None]
    ELSE [raised |-> FALSE, path |-> base_path \o "/" \o user_id]

\* the directories a call can open
ChromaPaths == {base_path} \cup {base_path \o "/" \o u : u \in ChromaUsers \ {None, ""}}

NoCall == [op |-> None, user_id |-> None, raised |-> FALSE, results |-> {},
           count |-> 0]

NoChroma == [index |-> [p \in ChromaPaths |-> {}], added |-> {}, adds |-> 0,
             last |-> NoCall]

\* add_translations_to_rag lines 75-93: the document of one pair
PairDocument(source, target, src_lang, tgt_lang) ==
    [content |-> "Source (" \o src_lang \o "): " \o source
                    \o "\nTarget (" \o tgt_lang \o "): " \o target,
     source_language |-> src_lang, target_language |-> tgt_lang,
     source_text |-> source, target_text |-> target]

\* zip(source_texts, target_texts): the documents of an add call
PairDocuments(pairs, src_lang, tgt_lang) ==
    {PairDocument(pairs[i][1], pairs[i][2], src_lang, tgt_lang) :
        i \in 1..Len(pairs)}

\* ChromaService.add_translations_to_rag
add_translations_to_rag(op, user_id, pairs, src_lang, tgt_lang) ==
    LET db   == get_user_db_path(user_id)
        docs == PairDocuments(pairs, src_lang, tgt_lang)
    IN  IF db.raised
        THEN chroma' = [chroma EXCEPT !.adds = @ + 1,
                           !.last = [op |-> op, user_id |-> user_id,
                                     raised |-> TRUE, results |-> {}, count |-> 0]]
        ELSE chroma' = [chroma EXCEPT
                           !.adds = @ + 1,
                           !.index[db.path] = @ \cup docs,
                           !.added = @ \cup {<<user_id, d>> : d \in docs},
                           !.last = [op |-> op, user_id |-> user_id,
                                     raised |-> FALSE, results |-> {},
                                     count |-> Len(pairs)]]

\* ChromaService.add_tmx_to_rag: add_translations_to_rag is called only
\* `if source_texts`; the languages are those of the first entry
add_tmx_to_rag(user_id, pairs, src_lang, tgt_lang) ==
    IF pairs # << >>
    THEN add_translations_to_rag("add_tmx", user_id, pairs, src_lang,
                                 tgt_lang)
    ELSE chroma' = [chroma EXCEPT !.adds = @ + 1,
                       !.last = [op |-> "add_tmx", user_id |-> user_id,
                                 raised |-> FALSE, results |-> {}, count |-> 0]]

\* lines 113-120: the metadata filter of a search (None: no condition)
MatchesFilter(doc, src_lang, tgt_lang) ==
    /\ Truthy(src_lang) => doc.source_language = src_lang
    /\ Truthy(tgt_lang) => doc.target_language = tgt_lang

\* ChromaService.search_similar_translations: the documents of the user's
\* collection that pass the filter (k is larger than the collections here)
search_similar_translations(user_id, src_lang, tgt_lang) ==
    LET db == get_user_db_path(user_id)
    IN  IF db.raised
        THEN chroma' = [chroma EXCEPT
                           !.last = [op |-> "search", user_id |-> user_id,
                                     raised |-> TRUE, results |-> {}, count |-> 0]]
        ELSE chroma' = [chroma EXCEPT
                           !.last = [op |-> "search", user_id |-> user_id,
                                     raised |-> FALSE,
                                     results |-> {d \in chroma.index[db.path] :
                                         MatchesFilter(d, src_lang,
                                                       tgt_lang)},
                                     count |-> 0]]

\* ChromaService.delete_user_collection: rmtree of the user's directory
delete_user_collection(user_id) ==
    LET db == get_user_db_path(user_id)
    IN  IF db.raised
        THEN chroma' = [chroma EXCEPT
                           !.last = [op |-> "delete", user_id |-> user_id,
                                     raised |-> TRUE, results |-> {}, count |-> 0]]
        ELSE chroma' = [chroma EXCEPT
                           !.index[db.path] = {},
                           !.added = {a \in @ : a[1] # user_id},
                           !.last = [op |-> "delete", user_id |-> user_id,
                                     raised |-> FALSE, results |-> {}, count |-> 0]]

(***************************************************************************)
(* The system: uploads, status polls and the background tasks              *)
(***************************************************************************)
\* values of the environment the runs are checked for
EnvDefaults == {"openai"}
EnvKeySets == {{}, {"anthropic"}}

\* callers and provider names of the upload requests
UploadUsers == {None, "sample_user_2"}
UploadProviders == {None, "openai"}

NoResolution == [kind |-> None, user_id |-> None, requested |-> None, ok |-> FALSE,
                 provider |-> None, client |-> None, api_key |-> None,
                 error |-> None]

Init ==
    /\ DEFAULT_LLM_MODEL \in EnvDefaults
    /\ api_keys \in EnvKeySets
    /\ allow_user_model_selection \in BOOLEAN
    /\ rag_enabled \in BOOLEAN
    /\ settings_cache = [inst \in Instances |-> sample_settings]
    /\ settings_file = sample_settings
    /\ translations_db = [id \in Jobs |-> NoRecord]
    /\ progress_tracker = [id \in Jobs |-> NoProgress]
    /\ pc = [id \in Jobs |-> "idle"]
    /\ task = [id \in Jobs |-> NoTask]
    /\ uploads = {}
    /\ next_id = 0
    /\ response = NoResponse
    /\ resolution = NoResolution
    /\ confidence = NoConfidence
    /\ chroma = NoChroma
    /\ MemoryIdle

Upload ==
    /\ next_id < MaxUploads
    /\ \E llmProvider \in UploadProviders, user_id \in UploadUsers,
          save_ok \in BOOLEAN, filename \in FileNames :
          upload_document(llmProvider, user_id, save_ok, filename)
    /\ UNCHANGED memVars

StatusPoll ==
    /\ \E id \in Jobs : check_translation_status(id)
    /\ UNCHANGED memVars

StdStep ==
    /\ \E id \in Jobs :
          \/ StdStart(id) \/ StdAfterExtract(id) \/ StdChunkDone(id)
          \/ StdAfterEnhance(id) \/ StdAfterSave(id)
    /\ UNCHANGED memVars

RagStep ==
    /\ \E id \in Jobs :
          \/ RagStart(id) \/ RagAfterExtract(id) \/ RagAfterDetect(id)
          \/ RagChunkDone(id) \/ RagAfterEnhance(id) \/ RagAfterSave(id)
    /\ UNCHANGED memVars

TaskEnd ==
    /\ \E id \in Jobs : AfterMetadata(id)
    /\ UNCHANGED memVars

Next == Upload \/ StatusPoll \/ StdStep \/ RagStep \/ TaskEnd

Spec == Init /\ [][Next]_vars

(***************************************************************************)
(* Concurrent jobs: the background tasks of several uploads interleave at  *)
(* their awaits                                                            *)
(***************************************************************************)
\* anonymous uploads that leave the provider to the server
UploadConcurrent ==
    /\ upload_document(None, None, TRUE, Document)
    /\ UNCHANGED memVars

NextConcurrent == UploadConcurrent \/ StdStep \/ RagStep \/ TaskEnd

SpecConcurrent == Init /\ [][NextConcurrent]_vars

(***************************************************************************)
(* The confidence estimators applied to every input                        *)
(***************************************************************************)
\* language names as the detectors and the upload form give them; one
\* estimate is made per run
ScoreLanguages == {"en", "fr", "english", "japanese", "spanish"}

\* process_translation lines 270-274
EstimateStd ==
    /\ confidence = NoConfidence
    /\ \E src \in ScoreLanguages, tgt \in ScoreLanguages,
          chunk_count \in 0..MaxSegments :
          confidence' = [estimator |-> "std", source_language |-> src,
                         target_language |-> tgt, chunk_count |-> chunk_count,
                         tm_match_count |-> 0,
                         score |-> calculate_confidence_score(src, tgt, chunk_count)]
    /\ UNCHANGED <<envVars, auxVars, setVars, jobVars, resVars, response, memVars>>

\* process_translation_with_rag lines 315-320: tm_match_count is
\* len(tm_matches), which has at most one entry per chunk
EstimateRag ==
    /\ confidence = NoConfidence
    /\ \E src \in ScoreLanguages, tgt \in ScoreLanguages,
          chunk_count \in 0..MaxSegments :
          \E tm_match_count \in 0..chunk_count :
             confidence' = [estimator |-> "rag", source_language |-> src,
                            target_language |-> tgt, chunk_count |-> chunk_count,
                            tm_match_count |-> tm_match_count,
                            score |-> rag_calculate_confidence_score(
                                          src, tgt, chunk_count, tm_match_count)]
    /\ UNCHANGED <<envVars, auxVars, setVars, jobVars, resVars, response, memVars>>

NextScore == EstimateStd \/ EstimateRag

SpecScore == Init /\ [][NextScore]_vars

(***************************************************************************)
(* The calls of the Chroma service                                         *)
(***************************************************************************)
\* translation pairs and languages of the add calls
ChromaPairs == {<< >>, << <<"hello", "bonjour">> >>, << <<"bye", "adieu">> >>}
ChromaLanguages == {None, "en"}

AddTranslations ==
    /\ chroma.adds < MaxAdds
    /\ \E user_id \in ChromaUsers, pairs \in ChromaPairs :
          add_translations_to_rag("add", user_id, pairs, "en", "fr")
    /\ UNCHANGED <<envVars, scoreVars, setVars, jobVars, resVars, response, memVars>>

AddTmx ==
    /\ chroma.adds < MaxAdds
    /\ \E user_id \in ChromaUsers, pairs \in ChromaPairs :
          add_tmx_to_rag(user_id, pairs, "en", "fr")
    /\ UNCHANGED <<envVars, scoreVars, setVars, jobVars, resVars, response, memVars>>

SearchSimilar ==
    /\ \E user_id \in ChromaUsers, src_lang \in ChromaLanguages :
          search_similar_translations(user_id, src_lang, None)
    /\ UNCHANGED <<envVars, scoreVars, setVars, jobVars, resVars, response, memVars>>

DeleteCollection ==
    /\ \E user_id \in ChromaUsers : delete_user_collection(user_id)
    /\ UNCHANGED <<envVars, scoreVars, setVars, jobVars, resVars, response, memVars>>

NextChroma == AddTranslations \/ AddTmx \/ SearchSimilar \/ DeleteCollection

SpecChroma == Init /\ [][NextChroma]_vars

(***************************************************************************)
(* Listings of the registry                                                *)
(***************************************************************************)
\* the keys of translations_db
StoredIds == {id \in Jobs : translations_db[id] # NoRecord}

\* translations_db.items() / .values(): a dict keeps its keys in the order
\* of their first insertion, which is the order of their createdAt
InsertionOrder ==
    CHOOSE s \in [1..Cardinality(StoredIds) -> StoredIds] :
        \A i, j \in DOMAIN s : i < j => task[s[i]].createdAt < task[s[j]].createdAt

\* TranslationService.get_all_translations: sorted by createdAt, reverse
get_all_translations ==
    CHOOSE s \in [1..Cardinality(StoredIds) -> StoredIds] :
        \A i, j \in DOMAIN s : i < j => task[s[i]].createdAt > task[s[j]].createdAt

\* RAGTranslationService.get_all_translations: the values as they are
rag_get_all_translations == InsertionOrder

ListAll ==
    /\ \/ response' = [op |-> "list", code |-> 200, raised |-> 0, id |-> 0,
                        body |-> get_all_translations]
       \/ response' = [op |-> "list_rag", code |-> 200, raised |-> 0, id |-> 0,
                        body |-> rag_get_all_translations]
    /\ UNCHANGED <<envVars, scoreVars, auxVars, setVars, jobVars, resVars, memVars>>

NextListing == UploadConcurrent \/ StdStep \/ RagStep \/ TaskEnd \/ ListAll

SpecListing == Init /\ [][NextListing]_vars

(***************************************************************************)
(* DELETE /api/translation/{translation_id}                                *)
(***************************************************************************)
\* the owner recorded for a job: the user whose upload created it
owner(id) == task[id].user_id

\* TranslationService.delete_translation: true when the job exists and the
\* requester is its recorded owner, false otherwise; it never raises
delete_translation(translation_id, user_id) ==
    /\ translations_db[translation_id] # NoRecord
    /\ owner(translation_id) = user_id

\* the handler: 401 without a user, the service call, 404 when it returns
\* false; every HTTPException raised inside the try is caught by the
\* closing `except Exception`
delete_translation_handler(translation_id, user_id) ==
    /\ IF ~Truthy(user_id)
       THEN /\ response' = [op |-> "delete", code |-> HandlerExcept(401),
                            raised |-> 401, id |-> translation_id,
                            body |-> NoStatus]
            /\ UNCHANGED <<translations_db, progress_tracker>>
       ELSE IF delete_translation(translation_id, user_id)
       THEN /\ translations_db' = [translations_db EXCEPT ![translation_id] = NoRecord]
            /\ progress_tracker' = [progress_tracker EXCEPT ![translation_id] = NoProgress]
            /\ response' = [op |-> "delete", code |-> 200, raised |-> 0,
                            id |-> translation_id, body |-> NoStatus]
       ELSE /\ response' = [op |-> "delete", code |-> HandlerExcept(404),
                            raised |-> 404, id |-> translation_id,
                            body |-> NoStatus]
            /\ UNCHANGED <<translations_db, progress_tracker>>
    /\ UNCHANGED <<envVars, scoreVars, auxVars, setVars, resVars, pc, task, uploads, next_id>>

\* the users of the upload and delete requests
DeleteUsers == {None, "sample_user_1", "sample_user_2"}

UploadOwned ==
    /\ next_id < MaxUploads
    /\ \E user_id \in DeleteUsers : upload_document(None, user_id, TRUE, Document)
    /\ UNCHANGED memVars

Delete ==
    /\ \E id \in Jobs, user_id \in DeleteUsers :
          delete_translation_handler(id, user_id)
    /\ UNCHANGED memVars

NextDelete == UploadOwned \/ StdStep \/ RagStep \/ TaskEnd \/ Delete

SpecDelete == Init /\ [][NextDelete]_vars

(***************************************************************************)
(* Provider resolution on its own: every credential set, the resolver      *)
(* called directly and through the selection of upload_document            *)
(***************************************************************************)
ResolveDefaults == {"openai", "anthropic", "siliconflow"}
ResolveNames == {None, "openai", "anthropic", "groq", "chatgpt", "mistral", "OpenAI"}
ResolveUsers == {None, "sample_user_2"}

InitResolve ==
    /\ DEFAULT_LLM_MODEL \in ResolveDefaults
    /\ api_keys \in SUBSET Providers
    /\ allow_user_model_selection \in BOOLEAN
    /\ rag_enabled = FALSE
    /\ settings_cache = [inst \in Instances |-> sample_settings]
    /\ settings_file = sample_settings
    /\ translations_db = [id \in Jobs |-> NoRecord]
    /\ progress_tracker = [id \in Jobs |-> NoProgress]
    /\ pc = [id \in Jobs |-> "idle"]
    /\ task = [id \in Jobs |-> NoTask]
    /\ uploads = {}
    /\ next_id = 0
    /\ response = NoResponse
    /\ resolution = NoResolution
    /\ confidence = NoConfidence
    /\ chroma = NoChroma
    /\ MemoryIdle

\* the resolution a result of get_llm stands for
Resolved(kind, requested, user_id, r) ==
    [kind |-> kind, user_id |-> user_id, requested |-> requested, ok |-> r.ok,
     provider |-> r.provider, client |-> r.client, api_key |-> r.api_key,
     error |-> r.error]

\* translation_service.get_llm(requested, user_id)
ResolveDirect(requested, user_id) ==
    /\ resolution' = Resolved("get_llm", requested, user_id,
                              get_llm("ts", requested, user_id))
    /\ settings_cache' = PipelineSettings("ts", user_id).cache
    /\ settings_file' = PipelineSettings("ts", user_id).file
    /\ UNCHANGED <<envVars, scoreVars, auxVars, jobVars, response, memVars>>

\* the provider a job gets: the selection of upload_document, then the
\* get_llm call of the pipeline with the selected provider
ResolveForJob(llmProvider, user_id) ==
    LET selected == SelectedProvider(llmProvider, user_id)
        st       == SettingsAfter(UploadSettings(llmProvider, user_id), "ts", user_id)
    IN  /\ resolution' =
              IF KeyCheckRaises(selected) # 0
              THEN [kind |-> "job", user_id |-> user_id, requested |-> llmProvider,
                    ok |-> FALSE, provider |-> selected, client |-> None,
                    api_key |-> None, error |-> "HTTPException"]
              ELSE Resolved("job", llmProvider, user_id,
                            get_llm("ts", ProviderAfterKeyCheck(selected), user_id))
        /\ settings_cache' = st.cache
        /\ settings_file' = st.file
        /\ UNCHANGED <<envVars, scoreVars, auxVars, jobVars, response, memVars>>

NextResolve ==
    \/ \E requested \in ResolveNames, user_id \in ResolveUsers :
          ResolveDirect(requested, user_id)
    \/ \E llmProvider \in ResolveNames, user_id \in ResolveUsers :
          ResolveForJob(llmProvider, user_id)

SpecResolve == InitResolve /\ [][NextResolve]_vars

(***************************************************************************)
(* Provider resolution for users with and without stored settings          *)
(***************************************************************************)
\* no user, a user of user_settings.json, a user it does not know
SettingsUsers == {None, "sample_user_2", "new_user"}

NextSettings ==
    \E requested \in ResolveNames, user_id \in SettingsUsers :
       ResolveDirect(requested, user_id)

SpecSettings == Init /\ [][NextSettings]_vars

(***************************************************************************)
(* The translation memory and the text of one job: the pipeline from the   *)
(* split to the saved artifact, TMX imports and searches                   *)
(***************************************************************************)
\* the UserSettingsService instance of the pipeline
PipelineInstance(pipeline) == IF pipeline = "rag" THEN "rag" ELSE "ts"

\* everything but the translation memory and the text of the job
specVars == <<envVars, scoreVars, auxVars, setVars, jobVars, resVars, response>>

\* upload_document lines 222-251 and the pipeline up to the split: the job
\* goes to the RAG pipeline when rag_enabled, else to the standard one
SubmitText(user_id, docs) ==
    /\ job.stage = "none"
    /\ job' = [NoJob EXCEPT !.stage = "lookup",
                            !.pipeline = IF rag_enabled THEN "rag" ELSE "std",
                            !.user_id = user_id,
                            !.docs = docs,
                            !.tm_matches = [i \in 1..Len(docs) |-> NoMatch],
                            !.llm_calls = [i \in 1..Len(docs) |-> 0],
                            !.llm_out = [i \in 1..Len(docs) |-> None]]
    /\ UNCHANGED <<specVars, embedding, translation_units, tmx_index, now,
                   uuid_count, tmx_op, search_result, tmx_files>>

\* process_translation_with_rag lines 196-209: the search for every chunk
Lookup(docs) ==
    [i \in 1..Len(docs) |->
        search_translation_memory(translation_units["pipeline"], docs[i],
                                  source_language, target_language, TMThreshold)]

\* process_translation_with_rag lines 196-278 / process_translation lines
\* 194-238: translation-memory lookup (RAG only), vector store, get_llm,
\* and the loop up to the first LLM call
TranslateLookup ==
    /\ job.stage = "lookup"
    /\ LET found == IF job.pipeline = "rag" THEN Lookup(job.docs) ELSE << >>
           tm    == [i \in 1..Len(job.docs) |->
                        IF job.pipeline = "rag" /\ found[i].matches # << >>
                        THEN BestMatch(found[i].matches) ELSE NoMatch]
       IN  IF \E i \in 1..Len(found) : found[i].raised
           THEN job' = [job EXCEPT !.stage = "failed", !.error = ImportError]
           ELSE \/ job' = [job EXCEPT !.stage = "failed", !.error = LLMError]
                \/ job' = RunLoop([job EXCEPT !.tm_matches = tm], 1)
                \/ job' = WithoutVectorStore(RunLoop([job EXCEPT !.tm_matches = tm], 1))
    /\ UNCHANGED <<specVars, embedding, translation_units, tmx_index, now,
                   uuid_count, tmx_op, search_result, tmx_files>>

\* process_translation_with_rag lines 271-288 / _translate_with_agent lines
\* 449-454: the LLM call for chunk i returns or raises; the RAG pipeline
\* writes the pair to its translation memory (create_tmx_file, which saves
\* the index); the loop runs on
TranslateChunk ==
    /\ job.stage = "translate"
    /\ \/ /\ job' = [job EXCEPT !.stage = "failed", !.error = ProviderError]
          /\ UNCHANGED <<translation_units, tmx_index, now, uuid_count, tmx_files>>
       \/ \E translated_text \in LLMOutputs :
             LET i     == job.i
                 units == create_tmx_file(translation_units["pipeline"],
                                          job.docs[i], translated_text,
                                          source_language, target_language,
                                          Uuid(uuid_count + 1), now)
             IN  /\ job' = RunLoop([job EXCEPT
                                      !.llm_calls[i] = @ + 1,
                                      !.llm_out[i] = translated_text,
                                      !.translated_chunks = Append(@, translated_text)],
                                   i + 1)
                 /\ IF job.pipeline = "rag"
                    THEN /\ translation_units' =
                               [translation_units EXCEPT !["pipeline"] = units]
                         /\ tmx_index' = units
                         /\ now' = now + 1
                         /\ uuid_count' = uuid_count + 1
                         /\ \E elapsed \in SinceLastCall(tmx_files) :
                               tmx_files' = write_tmx_file(tmx_files, source_language,
                                                           target_language, elapsed)
                    ELSE UNCHANGED <<translation_units, tmx_index, now, uuid_count, tmx_files>>
    /\ UNCHANGED <<specVars, embedding, tmx_op, search_result>>

\* lines 290-302 (245-257): the web service of the user, the join of the
\* chunks, and enhance_translation
EnhanceText ==
    /\ job.stage = "enhance"
    /\ LET web  == IF Truthy(job.user_id)
                   THEN get_web_translation_service(PipelineInstance(job.pipeline),
                                                    job.user_id)
                   ELSE None
           text == Join(job.translated_chunks)
       IN  \E outcome \in (IF Truthy(web) /\ web # "none"
                            THEN WebOutcomes ELSE {None}) :
              job' = [job EXCEPT !.stage = "save",
                                 !.web_translation_service = web,
                                 !.text = text,
                                 !.web_outcome = outcome,
                                 !.final_translation =
                                     enhance_translation(text, web, outcome)]
    /\ UNCHANGED <<specVars, embedding, translation_units, tmx_index, now,
                   uuid_count, tmx_op, search_result, tmx_files>>

\* lines 304-310 (259-265): save_translation writes final_translation to
\* the artifact, or raises
PersistText ==
    /\ job.stage = "save"
    /\ \/ job' = [job EXCEPT !.stage = "saved", !.artifact = job.final_translation]
       \/ job' = [job EXCEPT !.stage = "failed", !.error = SaveError]
    /\ UNCHANGED <<specVars, embedding, translation_units, tmx_index, now,
                   uuid_count, tmx_op, search_result, tmx_files>>

(***************************************************************************)
(* The TMX router: POST /api/tmx/upload and POST /api/tmx/search           *)
(***************************************************************************)
\* upload_tmx_file -> parse_tmx_file: the units of the file are merged into
\* the router's index, which is then saved
ImportTmx(file) ==
    /\ tmx_op.imports < MaxImports
    /\ LET units == ImportUnits(translation_units["router"], FileUnits(file), 1,
                                uuid_count, now)
       IN  /\ translation_units' = [translation_units EXCEPT !["router"] = units]
           /\ tmx_index' = units
    /\ uuid_count' = uuid_count + Len(FileUnits(file))
    /\ now' = now + 1
    /\ tmx_op' = [op |-> "import", file |-> file, imports |-> tmx_op.imports + 1]
    /\ UNCHANGED <<specVars, embedding, search_result, job, tmx_files>>

\* search_translation_memory of the router
SearchTmx(text, target, threshold) ==
    /\ LET r == search_translation_memory(translation_units["router"], text,
                                          source_language, target, threshold)
       IN  search_result' = [text |-> text, source_language |-> source_language,
                             target_language |-> target, threshold |-> threshold,
                             raised |-> r.raised, matches |-> r.matches]
    /\ tmx_op' = [tmx_op EXCEPT !.op = "search"]
    /\ UNCHANGED <<specVars, embedding, translation_units, tmx_index, now,
                   uuid_count, job, tmx_files>>

\* queries of the search endpoint
SearchTexts == {"hello"}
SearchTargets == {"fr"}
SearchThresholds == {70, 90}

InitMemory ==
    /\ DEFAULT_LLM_MODEL = "openai"
    /\ api_keys = {"openai"}
    /\ allow_user_model_selection = TRUE
    /\ rag_enabled \in BOOLEAN
    /\ settings_cache = [inst \in Instances |-> sample_settings]
    /\ settings_file = sample_settings
    /\ translations_db = [id \in Jobs |-> NoRecord]
    /\ progress_tracker = [id \in Jobs |-> NoProgress]
    /\ pc = [id \in Jobs |-> "idle"]
    /\ task = [id \in Jobs |-> NoTask]
    /\ uploads = {}
    /\ next_id = 0
    /\ response = NoResponse
    /\ resolution = NoResolution
    /\ confidence = NoConfidence
    /\ chroma = NoChroma
    /\ embedding \in {"ok", "model_error", "import_error"}
    /\ tmx_index \in InitialIndexes
    /\ translation_units = [inst \in TmxInstances |-> tmx_index]
    /\ now = 1
    /\ uuid_count = 0
    /\ tmx_op = NoTmxOp
    /\ search_result = NoSearch
    /\ job = NoJob
    /\ tmx_files = NoTmxFiles

Submit == \E user_id \in JobUsers, docs \in SplitResults : SubmitText(user_id, docs)

Import == \E file \in TmxFiles : ImportTmx(file)

Search == \E text \in SearchTexts, target \in SearchTargets,
             threshold \in SearchThresholds : SearchTmx(text, target, threshold)

NextMemory ==
    \/ Submit \/ TranslateLookup \/ TranslateChunk \/ EnhanceText \/ PersistText
    \/ Import \/ Search

SpecMemory == InitMemory /\ [][NextMemory]_vars

(***************************************************************************)
(* Properties                                                              *)
(***************************************************************************)
Terminal == {COMPLETED, FAILED}

\* the pipeline run of the id has ended, by returning or by an exception
\* that left the coroutine
RunEnded(id) == pc[id] \in {"done", "raised"}

\* C1: every pipeline run that recorded Processing has recorded Completed
\* or Failed by the time it ends; no run ends with the job still Processing.
C1_RunEndsTerminal ==
    \A id \in Jobs : RunEnded(id) => translations_db[id].status \in Terminal

\* order of the states of a job: no record, Pending, Processing, terminal
StatusRank(status) ==
    CASE status = None       -> 0
      [] status = PENDING    -> 1
      [] status = PROCESSING -> 2
      [] OTHER               -> 3

\* C2: the status of a job is monotonic: a Completed or Failed status never
\* changes again, and no write takes a job back to Processing or Pending
\* (or to no record).
C2_StatusMonotonic ==
    [][\A id \in Jobs :
          /\ translations_db[id].status \in Terminal
                => translations_db'[id].status = translations_db[id].status
          /\ StatusRank(translations_db'[id].status)
                >= StatusRank(translations_db[id].status)]_vars

\* a run went through Processing to a terminal status and ended
C2_Witness ==
    \E id \in Jobs : pc[id] = "done" /\ translations_db[id].status = COMPLETED

\* C3: the progress a status reader observes for a job stays within
\* [0.0, 1.0] and, up to the terminal status, never decreases.
C3_ProgressMonotonic ==
    /\ [](\A id \in Jobs : get_translation_status(id).progress \in 0..100)
    /\ [][\A id \in Jobs :
             translations_db[id].status \notin Terminal
                => get_translation_status(id)'.progress
                      >= get_translation_status(id).progress]_vars

\* a reader sees a job in Processing whose progress has advanced to 0.9
C3_Witness ==
    /\ response.op = "status"
    /\ response.body.status = PROCESSING
    /\ response.body.progress = 90

\* the provider's own key is configured
OwnKey(provider) == provider_map(Lower(provider)) \in api_keys

\* first provider of the fixed order, from position i on, with its own key
RECURSIVE FirstConfiguredFrom(_)
FirstConfiguredFrom(i) ==
    IF i > Len(ProviderOrder) THEN None
    ELSE IF ProviderOrder[i] \in api_keys THEN ProviderOrder[i]
    ELSE FirstConfiguredFrom(i + 1)

\* the name a resolution starts from: the requested one, else the default
EffectiveName(requested) ==
    IF Truthy(requested) THEN Lower(requested) ELSE default_provider

\* C4: when the requested (or default) provider has no credential and some
\* supported provider has one, get_llm resolves to the first provider of the
\* fixed order that has a credential.
C4_FallbackOrder ==
    ( /\ resolution.kind = "get_llm"
      /\ resolution.user_id = None
      /\ ~OwnKey(EffectiveName(resolution.requested))
      /\ api_keys # {} )
    => /\ resolution.ok
       /\ resolution.client = FirstConfiguredFrom(1)
       /\ resolution.api_key = FirstConfiguredFrom(1)

\* C5: with no credential for any supported provider an upload request is
\* rejected before any job exists: no id is issued, no record stored, no
\* upload saved, no pipeline task scheduled.
C5_NoJobWithoutCredentials ==
    api_keys = {} =>
        /\ next_id = 0
        /\ uploads = {}
        /\ \A id \in Jobs : /\ pc[id] = "idle"
                            /\ translations_db[id] = NoRecord
                            /\ progress_tracker[id] = NoProgress
        /\ response.op = "upload" => response.id = 0

\* an upload request was answered while no provider had a credential
C5_Witness ==
    api_keys = {} /\ response.op = "upload" /\ response.raised = 400

\* C6: with no credential for any supported provider, the error the caller
\* of the upload operation receives is the 400 error.
C6_Upload400 ==
    (api_keys = {} /\ response.op = "upload") => response.code = 400

\* the settings of the user forbid free provider selection
Restricted(user_id) ==
    Truthy(user_id) /\ ~is_model_selection_allowed("ts", user_id)

\* C7: for a user whose settings forbid free provider selection, two
\* resolutions that differ only in the requested provider name resolve to
\* the same provider (client and key).
C7_RequestIgnored ==
    [][( /\ resolution.kind # None
         /\ resolution'.user_id = resolution.user_id
         /\ Restricted(resolution.user_id) )
       => /\ resolution'.ok = resolution.ok
          /\ resolution'.client = resolution.client
          /\ resolution'.api_key = resolution.api_key]_vars

\* a restricted user asked for a provider other than the configured one
\* and got the configured one
C7_Witness ==
    /\ Restricted(resolution.user_id)
    /\ resolution.requested = "openai"
    /\ get_user_llm_provider("ts", resolution.user_id) = "anthropic"
    /\ resolution.ok
    /\ resolution.client = "anthropic"

\* C8: an unrecognized provider name resolves, without error, to the
\* default provider with the default provider's credential whenever the
\* default provider has a credential.
C8_UnknownToDefault ==
    ( /\ resolution.kind = "get_llm"
      /\ resolution.user_id = None
      /\ resolution.requested \in UnknownNames
      /\ OwnKey(default_provider) )
    => /\ resolution.ok
       /\ resolution.client = ClientFor(default_provider)
       /\ resolution.api_key = provider_map(default_provider)

\* C9: downloadUrl is set only on a Completed record and errorMessage only
\* on a Failed one; a Failed record references no output artifact.
C9_FieldsMatchStatus ==
    \A id \in Jobs :
        /\ translations_db[id].downloadUrl # None
              => translations_db[id].status = COMPLETED
        /\ translations_db[id].errorMessage # None
              => translations_db[id].status = FAILED

\* one job failed with its message
C9_Witness ==
    \E id \in Jobs : /\ translations_db[id].status = FAILED
                     /\ translations_db[id].errorMessage = ProviderError

\* C10: finalization is one transition for status readers: no status read
\* returns Completed with a progress other than 1.0 or without download URL.
C10_AtomicFinalize ==
    /\ \A id \in Jobs :
          get_translation_status(id).status = COMPLETED
             => /\ get_translation_status(id).progress = 100
                /\ get_translation_status(id).downloadUrl # None
    /\ (response.op = "status" /\ response.body.status = COMPLETED)
          => /\ response.body.progress = 100
             /\ response.body.downloadUrl # None

\* a status read returned the Completed record while the task was still
\* awaiting save_metadata
C10_Witness ==
    /\ response.op = "status"
    /\ response.body.status = COMPLETED
    /\ pc[response.id] = "meta"

(***************************************************************************)
(* Properties of the translation memory and of the text of a job           *)
(***************************************************************************)
\* translate(s_i): the translation the job has for chunk i, the target text
\* of its translation-memory match or what the LLM returned for it
ChunkTranslation(j, i) ==
    IF j.tm_matches[i] # NoMatch THEN j.tm_matches[i].target_text
    ELSE j.llm_out[i]

\* translate(s_0) + translate(s_1) + ... from chunk k on
RECURSIVE Concatenation(_, _)
Concatenation(j, k) ==
    IF k > Len(j.docs) THEN ""
    ELSE ChunkTranslation(j, k) \o Concatenation(j, k + 1)

\* C11: the content of the saved artifact is the concatenation of the
\* chunk translations in index order, with nothing added, whichever chunks
\* came from the translation memory and whichever from the LLM.
C11_ArtifactIsConcatenation ==
    job.stage = "saved" => job.artifact = Concatenation(job, 1)

\* C12: when the web translation service of the job is "none" or unset,
\* the text handed to the persist stage is exactly the joined chunk
\* translations, so that a one-chunk job whose provider returns T saves T.
C12_EnhancePassThrough ==
    ( /\ job.stage \in {"save", "saved"}
      /\ job.web_translation_service \in {None, "none"} )
    => /\ job.final_translation = job.text
       /\ (Len(job.docs) = 1 /\ job.llm_calls[1] = 1)
             => job.final_translation = job.llm_out[1]

\* the units of the index that a search for the text may return
Candidates(units, text, threshold) ==
    {i \in 1..Len(units) :
        /\ units[i].variants[source_language] # None
        /\ units[i].variants[target_language] # None
        /\ cos_sim(text, units[i].variants[source_language]) >= threshold}

\* the match found for a chunk is one of highest similarity among the
\* candidates of the index, with the target text of that unit
IsBestMatch(units, text, match) ==
    LET cands == Candidates(units, text, TMThreshold)
    IN  IF cands = {} THEN match = NoMatch
        ELSE \E i \in cands :
                /\ match.unit_id = units[i].id
                /\ match.target_text = units[i].variants[target_language]
                /\ match.similarity = cos_sim(text, units[i].variants[source_language])
                /\ \A k \in cands :
                      cos_sim(text, units[k].variants[source_language])
                         <= match.similarity

\* the loop over the chunks has ended
TranslateEachDone(j) == j.stage \in {"enhance", "save", "saved"}

\* C13: a chunk that has a translation-memory match at or above the
\* threshold gets no LLM call and the target text of the best match; every
\* other chunk gets exactly one LLM call.
C13_MemoryBeforeLLM ==
    /\ [][( /\ job.stage = "lookup"
            /\ job'.stage \in {"translate", "enhance"}
            /\ job.pipeline = "rag"
            /\ embedding = "ok" )
          => \A i \in 1..Len(job.docs) :
                IsBestMatch(translation_units["pipeline"], job.docs[i],
                            job'.tm_matches[i])]_vars
    /\ [](\A i \in 1..Len(job.docs) :
             /\ job.llm_calls[i] <= 1
             /\ job.tm_matches[i] # NoMatch => job.llm_calls[i] = 0
             /\ (TranslateEachDone(job) /\ job.tm_matches[i] = NoMatch)
                   => job.llm_calls[i] = 1
             /\ (TranslateEachDone(job) /\ job.tm_matches[i] # NoMatch)
                   => job.translated_chunks[i] = TMChunk(job.tm_matches[i]))

\* a job whose first chunk was served by the better of two candidates and
\* whose second chunk went to the LLM
C13_Witness ==
    /\ TranslateEachDone(job)
    /\ Len(job.docs) = 2
    /\ job.tm_matches[1].unit_id = "seed-2"
    /\ job.tm_matches[1].similarity = 100
    /\ job.llm_calls = <<0, 1>>

\* C14: every LLM-produced chunk translation is in the translation memory
\* before the next chunk is processed, and a later chunk of the same job
\* that matches an earlier LLM-translated chunk at or above the threshold
\* is served from the translation memory, not by a new LLM call.
C14_WriteThroughReuse ==
    (job.pipeline = "rag" /\ embedding = "ok") =>
        \A i \in 1..Len(job.docs) :
            job.llm_calls[i] > 0 =>
                /\ \E k \in 1..Len(translation_units["pipeline"]) :
                      LET u == translation_units["pipeline"][k]
                      IN  /\ u.variants[source_language] = job.docs[i]
                          /\ u.variants[target_language] = job.llm_out[i]
                /\ \A e \in 1..(i - 1) :
                      job.llm_calls[e] > 0
                         => cos_sim(job.docs[i], job.docs[e]) < TMThreshold

\* C15: a search returns only entries whose similarity is at least the
\* threshold, ordered by non-increasing similarity.
C15_ThresholdAndOrder ==
    LET ms == search_result.matches
    IN  /\ \A i \in 1..Len(ms) : ms[i].similarity >= search_result.threshold
        /\ \A i \in 1..Len(ms) : \A k \in i..Len(ms) :
              ms[i].similarity >= ms[k].similarity

\* a search returned two matches that the index holds in the other order,
\* and left out a unit of both languages below the threshold
C15_Witness ==
    /\ tmx_op.op = "search"
    /\ Len(search_result.matches) = 2
    /\ search_result.matches[1].unit_id = "seed-2"
    /\ search_result.matches[2].unit_id = "seed-1"
    /\ \E i \in 1..Len(translation_units["router"]) :
          LET u == translation_units["router"][i]
          IN  /\ u.variants["en"] # None /\ u.variants["fr"] # None
              /\ cos_sim(search_result.text, u.variants["en"]) < search_result.threshold

\* C16: a search never returns a unit that lacks the source or the target
\* language, and the texts of every match are the unit's variants of the
\* two languages.  (The router's index is the one searched as long as the
\* search is the router's last operation.)
C16_BothLanguages ==
    tmx_op.op = "search" =>
        \A i \in 1..Len(search_result.matches) :
            LET m == search_result.matches[i]
            IN  \E k \in 1..Len(translation_units["router"]) :
                   LET u == translation_units["router"][k]
                   IN  /\ u.id = m.unit_id
                       /\ u.variants[search_result.source_language] # None
                       /\ u.variants[search_result.target_language] # None
                       /\ m.source_text = u.variants[search_result.source_language]
                       /\ m.target_text = u.variants[search_result.target_language]

\* a search for "hello" into French returned matches while the index held
\* a unit with that source text and no French variant
C16_Witness ==
    /\ tmx_op.op = "search"
    /\ search_result.matches # << >>
    /\ \E k \in 1..Len(translation_units["router"]) :
          LET u == translation_units["router"][k]
          IN  /\ u.variants["en"] = search_result.text
              /\ u.variants["fr"] = None

\* a step of the router that imports a file
ImportStep ==
    /\ tmx_op'.op = "import"
    /\ tmx_op'.imports = tmx_op.imports + 1

\* every <tu> of the file carries a tuid
CarriesIds(file) ==
    \A k \in 1..Len(FileUnits(file)) : FileUnits(file)[k].tuid # None

\* C17: importing a file whose units carry ids a second time leaves the
\* number of units and the variants of every unit as the first import left
\* them.
C17_ReimportIdempotent ==
    [][( /\ ImportStep
         /\ tmx_op.file = tmx_op'.file
         /\ CarriesIds(tmx_op'.file) )
       => LET before == translation_units["router"]
              after  == translation_units'["router"]
          IN  /\ Len(after) = Len(before)
              /\ \A i \in 1..Len(before) :
                    /\ after[i].id = before[i].id
                    /\ after[i].variants = before[i].variants]_vars

\* the file f1 was imported twice and its unit is there once
C17_Witness ==
    /\ tmx_op = [op |-> "import", file |-> "f1", imports |-> 2]
    /\ \E i \in 1..Len(translation_units["router"]) :
          LET u == translation_units["router"][i]
          IN  u.id = "t1" /\ u.last_updated > u.created_at
    /\ \A i, k \in 1..Len(translation_units["router"]) :
          translation_units["router"][i].id = translation_units["router"][k].id
             => i = k

\* the <tu> elements of the file that are imported into the unit id: those
\* with that tuid and at least one variant
ImportsOf(file, id) ==
    {k \in 1..Len(FileUnits(file)) :
        /\ FileUnits(file)[k].tuid = id
        /\ ParseVariants(FileUnits(file)[k].tuvs) # NoVariants}

\* the text the file gives language l of the unit id: that of its last
\* <tu> with a variant of l (None when there is none)
ImportedVariant(file, id, l) ==
    LET ks == {k \in ImportsOf(file, id) :
                  ParseVariants(FileUnits(file)[k].tuvs)[l] # None}
    IN  IF ks = {} THEN None
        ELSE ParseVariants(FileUnits(file)[CHOOSE k \in ks : \A m \in ks : m <= k].tuvs)[l]

\* C18: re-importing an existing unit id removes no language variant:
\* languages absent from the import keep their text, languages present
\* are overwritten, created_at is unchanged and last_updated is refreshed.
C18_ReimportKeepsVariants ==
    [][ImportStep
       => LET before == translation_units["router"]
              after  == translation_units'["router"]
              file   == tmx_op'.file
          IN  /\ Len(after) >= Len(before)
              /\ \A i \in 1..Len(before) :
                    /\ after[i].id = before[i].id
                    /\ after[i].created_at = before[i].created_at
                    /\ \A l \in Langs :
                          /\ before[i].variants[l] # None
                                => after[i].variants[l] # None
                          /\ after[i].variants[l] =
                                IF ImportedVariant(file, before[i].id, l) # None
                                THEN ImportedVariant(file, before[i].id, l)
                                ELSE before[i].variants[l]
                    /\ after[i].last_updated =
                          IF ImportsOf(file, before[i].id) # {}
                          THEN now ELSE before[i].last_updated]_vars

\* the unit t1 of file f1 was re-imported from file f2: its English text
\* kept, its French text overwritten, a German text added
C18_Witness ==
    /\ tmx_op.op = "import" /\ tmx_op.file = "f2"
    /\ \E i \in 1..Len(translation_units["router"]) :
          LET u == translation_units["router"][i]
          IN  /\ u.id = "t1"
              /\ u.variants = Variants("bye", "adieu", "tschuess")
              /\ u.last_updated > u.created_at

\* C19: the persisted index loses no unit, whatever the interleaving of
\* TMX imports (the router's instance) and write-through appends (the
\* pipeline's instance).
C19_NoLostEntry ==
    [][UnitIds(tmx_index) \subseteq UnitIds(tmx_index')]_vars

\* C20: a failure of the embedding library or model during the lookup
\* gives empty match lists and no exception: the job goes on and every
\* chunk is translated by the LLM.
C20_EmbeddingFailureDegrades ==
    (embedding # "ok" /\ job.pipeline = "rag") =>
        /\ job.error # ImportError
        /\ \A i \in 1..Len(job.docs) : job.tm_matches[i] = NoMatch
        /\ TranslateEachDone(job)
              => \A i \in 1..Len(job.docs) : job.llm_calls[i] = 1

(***************************************************************************)
(* Failure handling of the pipelines                                       *)
(***************************************************************************)
\* C21: an LLM call failure on a segment ends the job as Failed without a
\* retry: from the failure on the run translates no further segment, saves
\* no artifact and never records Completed.
C21_LLMFailureIsFatal ==
    \A id \in Jobs :
        task[id].error = ProviderError
            => /\ translations_db[id].status = FAILED
               /\ pc[id] \in {"fail_meta", "done"}
               /\ task[id].i < task[id].docs

\* C22: when a stage of a run raises, the errorMessage of the job is the
\* text of the exception that was caught, unchanged, whatever the stage
\* (the set-up of the provider included).
C22_ErrorMessageIsExceptionText ==
    \A id \in Jobs :
        task[id].error # None
            => translations_db[id].errorMessage = task[id].error

\* C23: a failure inside the enhance stage (an error of the web translation
\* service, a response other than 200, a missing key) does not fail the
\* job: the stage hands its input text on unchanged and the job goes to
\* the persist stage.
C23_EnhanceFailureRecovered ==
    [][(job.stage = "enhance" /\ job' # job)
       => /\ job'.stage = "save"
          /\ job'.error = None
          /\ job'.web_outcome \in WebFailures
                => job'.final_translation = Join(job.translated_chunks)]_vars

\* a job whose web service answered with a status other than 200 saved the
\* joined chunk translations
C23_Witness ==
    /\ job.stage = "saved"
    /\ job.web_outcome = "non_200"
    /\ job.artifact = job.text
    /\ Len(job.docs) > 0

\* the exceptions a stage of the pipeline raises for a cause outside the
\* pipeline (file, provider, disk)
StageErrors == {ExtractError, VectorStoreError, LLMError, NoKeysError,
                ProviderError, TMXError, SaveError}

\* C24: a document whose text is empty gives zero segments, and a run with
\* zero segments in which no stage failed ends Completed, without an LLM
\* call, in both pipelines.
C24_EmptyDocumentCompletes ==
    \A id \in Jobs :
        (RunEnded(id) /\ task[id].docs = 0 /\ task[id].error \notin StageErrors)
            => /\ translations_db[id].status = COMPLETED
               /\ task[id].i = 0

\* C25: failure isolation.  Every write of a pipeline run to the job
\* registry and to the progress map is keyed by the id of its own job: a
\* step in which the run of job y does not move, the failure of another
\* job's run included, leaves the record and the progress of y unchanged.
C25_FailureIsolation ==
    [][\A y \in Jobs :
          (pc'[y] = pc[y] /\ task'[y] = task[y])
             => /\ translations_db'[y] = translations_db[y]
                /\ progress_tracker'[y] = progress_tracker[y]]_vars

\* the LLM call of one job failed and the job is Failed, while another job
\* is between two LLM calls, Processing at the progress of its own stage
C25_Witness ==
    \E x, y \in Jobs :
        /\ x # y
        /\ task[x].error = ProviderError
        /\ translations_db[x].status = FAILED
        /\ pc[y] = "translate" /\ task[y].i = 1
        /\ translations_db[y] = ProcessingRecord
        /\ progress_tracker[y] = 70

\* C26: ownership-gated delete.  A delete request for a job recorded as
\* another user's leaves the job retrievable and is answered 404; a delete
\* request of the recorded owner removes the job.
C26_OwnershipGatedDelete ==
    [][\A id \in Jobs, user_id \in DeleteUsers \ {None} :
          (translations_db[id] # NoRecord /\ delete_translation_handler(id, user_id))
             => IF owner(id) = user_id
                THEN /\ translations_db'[id] = NoRecord
                     /\ response'.code = 200
                ELSE /\ translations_db'[id] = translations_db[id]
                     /\ response'.code = 404]_vars

\* C27: once the upload has returned the id of a job, every status read
\* for that id is answered with a well-formed record whose status is
\* Processing, Completed or Failed, never with not-found and never with an
\* error, wherever the background task stands.
C27_StatusAlwaysReadable ==
    (response.op = "status" /\ response.id \in uploads)
        => /\ response.code = 200
           /\ response.body.status \in {PROCESSING, COMPLETED, FAILED}

\* C28: in the translateEach stage, once the first i segments of `docs`
\* are done the observable progress is 0.6 + 0.2 * i / docs (in percent:
\* progress * docs = 60 * docs + 20 * i), so that it is 0.8 exactly when
\* the last segment is done.
C28_LinearProgress ==
    \A id \in Jobs :
        (pc[id] \in {"translate", "enhance"} /\ task[id].i >= 1)
            => progress_tracker[id] * task[id].docs
                  = 60 * task[id].docs + 20 * task[id].i

\* the await a run may stand at after the await `stage`, when no stage
\* fails: extract_text, detect_language (RAG), the LLM calls (after the
\* split, the lookups and the provider), enhance_translation,
\* save_translation, save_metadata
StageSuccessors(stage) ==
    CASE stage = "idle"      -> {"scheduled"}
      [] stage = "scheduled" -> {"extract"}
      [] stage = "extract"   -> {"detect", "translate", "enhance"}
      [] stage = "detect"    -> {"translate", "enhance"}
      [] stage = "translate" -> {"translate", "enhance"}
      [] stage = "enhance"   -> {"save"}
      [] stage = "save"      -> {"meta"}
      [] stage = "meta"      -> {"done"}
      [] stage = "fail_meta" -> {"done"}
      [] OTHER               -> {}

\* C29: the stages of one job run strictly in order.  A run moves only to
\* the next stage (or to its failure handling); the first LLM call comes
\* straight after the step that resolves the provider; enhance starts only
\* when every segment has a translation; the artifact is saved only after
\* enhance has returned; Completed is recorded only when save_translation
\* has returned.
C29_StagesInOrder ==
    [][\A id \in Jobs :
          /\ pc'[id] # pc[id]
                => pc'[id] \in StageSuccessors(pc[id]) \cup {"fail_meta", "raised"}
          /\ (pc'[id] = "translate" /\ pc[id] # "translate")
                => /\ pc[id] = (IF task[id].pipeline = "rag" THEN "detect" ELSE "extract")
                   /\ task'[id].i < task'[id].docs
          /\ (pc'[id] = "enhance" /\ pc[id] # "enhance")
                => task'[id].i = task'[id].docs
          /\ (pc'[id] = "save" /\ pc[id] # "save") => pc[id] = "enhance"
          /\ (translations_db'[id].status = COMPLETED
                 /\ translations_db[id].status # COMPLETED)
                => (pc[id] = "save" /\ pc'[id] = "meta")]_vars

\* a job of two segments went through every stage and is Completed
C29_Witness ==
    \E id \in Jobs :
        /\ pc[id] = "done"
        /\ task[id].docs = 2 /\ task[id].i = 2
        /\ translations_db[id].status = COMPLETED

\* C30: the confidence score of a job lies in [0, 1] (0..1000 thousandths)
\* for every source and target language, every chunk count >= 0 and every
\* number of translation-memory matches from 0 to the chunk count, with
\* both estimators.
C30_ConfidenceInUnitInterval ==
    confidence # NoConfidence
        => (0 <= confidence.score /\ confidence.score <= 1000)

\* the RAG estimator was applied to a large document of a complex language
\* pair whose chunks all came from the translation memory: 0.75 + 0.15 - 0.1
C30_Witness ==
    /\ confidence.estimator = "rag"
    /\ confidence.source_language = "japanese"
    /\ confidence.target_language = "english"
    /\ confidence.chunk_count = 21 /\ confidence.tm_match_count = 21
    /\ confidence.score = 800

(***************************************************************************)
(* Confidence score, vector context store, listings, downloads             *)
(***************************************************************************)
\* C31: the confidence score is symmetric in the language pair: with the
\* two languages exchanged and the same counts, each estimator returns the
\* same score.
C31_ScoreSymmetric ==
    confidence # NoConfidence
        => confidence.score =
              IF confidence.estimator = "rag"
              THEN rag_calculate_confidence_score(
                       confidence.target_language, confidence.source_language,
                       confidence.chunk_count, confidence.tm_match_count)
              ELSE calculate_confidence_score(
                       confidence.target_language, confidence.source_language,
                       confidence.chunk_count)

\* the RAG estimator took the deduction for a complex pair from English to
\* Japanese
C31_Witness ==
    /\ confidence.estimator = "rag"
    /\ confidence.source_language = "english"
    /\ confidence.target_language = "japanese"
    /\ confidence.chunk_count = 1 /\ confidence.tm_match_count = 0
    /\ confidence.score = 700

\* C32: every call of the Chroma service without a user id (None or "")
\* fails with an error and changes no index, and a search for a user
\* returns only documents that were added for that user.
C32_PerUserIsolation ==
    [][chroma' # chroma
       => /\ ~Truthy(chroma'.last.user_id)
                => /\ chroma'.last.raised
                   /\ chroma'.index = chroma.index
          /\ (chroma'.last.op = "search" /\ Truthy(chroma'.last.user_id))
                => \A d \in chroma'.last.results :
                      <<chroma'.last.user_id, d>> \in chroma.added]_vars

\* C33: provider resolution has no side effects: a call of get_llm, for
\* any requested provider and any user id, known or not, leaves the
\* user-settings cache, the user-settings file and every other store as
\* they were.
C33_ResolutionIsPure ==
    [][(\E requested \in ResolveNames, user_id \in SettingsUsers :
           ResolveDirect(requested, user_id))
       => /\ settings_cache' = settings_cache
          /\ settings_file' = settings_file
          /\ UNCHANGED <<envVars, jobVars, memVars, auxVars>>]_vars

\* C34: every listing of the jobs, of either pipeline service, returns all
\* stored jobs ordered newest-first by creation time.
C34_ListNewestFirst ==
    response.op \in {"list", "list_rag"}
        => \A i, j \in DOMAIN response.body :
              i < j => task[response.body[i]].createdAt
                          > task[response.body[j]].createdAt

\* C35: writing the metadata file is best-effort: a failure while writing it
\* never changes the status of the job and never fails the job; the step
\* that awaits save_metadata leaves the record of the job as it was and the
\* coroutine returns.
C35_MetadataBestEffort ==
    [][\A id \in Jobs :
          (pc[id] \in {"meta", "fail_meta"} /\ pc'[id] # pc[id])
             => /\ pc'[id] = "done"
                /\ translations_db'[id] = translations_db[id]]_vars

\* a Completed job whose metadata file could not be written
C35_Witness ==
    \E id \in Jobs : /\ pc[id] = "done"
                     /\ task[id].metadata = "lost"
                     /\ translations_db[id].status = COMPLETED

\* C36: whenever get_llm constructs a client, the credential it passes is
\* the credential of the provider whose client it constructs: never one
\* provider's client with another provider's key.
C36_KeyMatchesClient ==
    (resolution.kind # None /\ resolution.client # None)
       => resolution.api_key = resolution.client

\* translations_db[id].originalFileName: every record the pipeline stores
\* for the id carries the original_filename argument of the run
originalFileName(id) == task[id].original_filename

\* TranslationService.get_translation_file: the path built for a Completed
\* record, else None
get_translation_file(translation_id) ==
    IF translations_db[translation_id].status = COMPLETED
    THEN join("translations",
              ToString(translation_id) \o "_"
                 \o FileName(originalFileName(translation_id)))
    ELSE None

\* C37: for every Completed job, the path get_translation_file returns for
\* download is the path at which save_translation wrote the artifact of the
\* job; for a job that is not Completed it returns no path.
C37_DownloadPathIsSavedPath ==
    \A id \in Jobs :
        IF translations_db[id].status = COMPLETED
        THEN get_translation_file(id) = task[id].output_path
        ELSE get_translation_file(id) = None

\* C38: each call of create_tmx_file produces its own exchange-format file:
\* no call overwrites the file written by an earlier call, so the file of
\* every call made so far is in the directory.
C38_OwnFilePerCall ==
    \A call \in 1..tmx_files.calls : \E f \in tmx_files.files : f.call = call

\* ProcessingDetails.model of the Completed record and "llm_provider" of the
\* saved metadata: `llm_provider or self.default_model`, with the
\* llm_provider argument of the run
processing_details_model(id) ==
    IF Truthy(task[id].llm_provider) THEN task[id].llm_provider
    ELSE default_model

\* C39: the provider name recorded in the processing details of a Completed
\* job (and in its saved metadata) names the provider whose client performed
\* the translation, also when a user-settings override or a credential
\* fallback replaced the requested provider.
C39_RecordedProviderIsActual ==
    \A id \in Jobs :
        translations_db[id].status = COMPLETED
           => provider_map(Lower(processing_details_model(id))) = task[id].client

\* C40: in the RAG pipeline a vector store that could not be built (None)
\* does not fail the job: whatever the number of segments, the run goes on
\* from the split to the translate loop (or past it, when no segment needs
\* the LLM) and not to the except block.
C40_VectorStoreFailureTolerated ==
    [][\A id \in Jobs :
          ( /\ pc[id] = "detect"
            /\ pc'[id] # "detect"
            /\ task'[id].pipeline = "rag"
            /\ task'[id].docs > 0
            /\ task'[id].vector_store = None )
          => pc'[id] \in {"translate", "enhance"}]_vars

====
